---- MODULE Spec2Model ----
(***************************************************************************)
(* A model of server.js: an Express server whose handlers forward a        *)
(* request to a third-party API and reshape the reply.                     *)
(*                                                                         *)
(* Text that the code inspects character by character (path and query      *)
(* parameters, upstream names) is a sequence of one-character strings;     *)
(* text the code only emits is a string.  A JavaScript object is a         *)
(* function whose DOMAIN holds the keys that are present, so that an       *)
(* absent key (a read of it gives undefined) differs from a key holding an *)
(* empty value.  A Number is an IEEE-754 double held exactly as            *)
(* mantissa * 2^exponent, the mantissa being an unbounded natural kept as  *)
(* a little-endian sequence of limbs.                                      *)
(***************************************************************************)
EXTENDS Integers, Sequences, FiniteSets, TLC

(***************************************************************************)
(* Unbounded naturals: little-endian sequences of limbs in base 2^14, with *)
(* no most-significant zero limb (zero is the empty sequence).             *)
(***************************************************************************)
LimbBits == 14

Base == 2 ^ LimbBits

RECURSIVE BigNorm(_)
BigNorm(a) ==
    IF a = <<>> THEN <<>>
    ELSE IF a[Len(a)] = 0 THEN BigNorm(SubSeq(a, 1, Len(a) - 1))
    ELSE a

RECURSIVE BigFromNat(_)
BigFromNat(n) ==
    IF n = 0 THEN <<>> ELSE <<n % Base>> \o BigFromNat(n \div Base)

RECURSIVE BigAddC(_, _, _)
BigAddC(a, b, c) ==
    IF a = <<>> /\ b = <<>>
    THEN (IF c = 0 THEN <<>> ELSE <<c>>)
    ELSE LET x == IF a = <<>> THEN 0 ELSE Head(a)
             y == IF b = <<>> THEN 0 ELSE Head(b)
             s == x + y + c
         IN  <<s % Base>> \o BigAddC(IF a = <<>> THEN <<>> ELSE Tail(a),
                                     IF b = <<>> THEN <<>> ELSE Tail(b),
                                     s \div Base)

BigAdd(a, b) == BigNorm(BigAddC(a, b, 0))

RECURSIVE BigMulSmallC(_, _, _)
BigMulSmallC(a, k, c) ==
    IF a = <<>>
    THEN (IF c = 0 THEN <<>> ELSE <<c>>)
    ELSE LET p == Head(a) * k + c
         IN  <<p % Base>> \o BigMulSmallC(Tail(a), k, p \div Base)

\* a * k for 0 <= k < Base
BigMulSmall(a, k) == BigNorm(BigMulSmallC(a, k, 0))

RECURSIVE BigMul(_, _)
BigMul(a, b) ==
    IF a = <<>> \/ b = <<>> THEN <<>>
    ELSE BigAdd(BigMulSmall(b, Head(a)),
                LET rest == BigMul(Tail(a), b)
                IN  IF rest = <<>> THEN <<>> ELSE <<0>> \o rest)

RECURSIVE BigDivModRaw(_, _)
BigDivModRaw(a, d) ==
    IF a = <<>> THEN [q |-> <<>>, r |-> 0]
    ELSE LET hi  == BigDivModRaw(Tail(a), d)
             cur == hi.r * Base + Head(a)
         IN  [q |-> <<cur \div d>> \o hi.q, r |-> cur % d]

\* quotient and remainder of a by d, for 0 < d < Base
BigDivMod(a, d) ==
    LET raw == BigDivModRaw(a, d) IN [q |-> BigNorm(raw.q), r |-> raw.r]

RECURSIVE Zeros(_)
Zeros(n) == IF n = 0 THEN <<>> ELSE <<0>> \o Zeros(n - 1)

\* a * 2^n
BigShl(a, n) ==
    IF a = <<>> THEN <<>>
    ELSE Zeros(n \div LimbBits) \o BigMulSmall(a, 2 ^ (n % LimbBits))

\* floor(a / 2^n)
BigShr(a, n) ==
    IF n \div LimbBits >= Len(a) THEN <<>>
    ELSE BigDivMod(SubSeq(a, n \div LimbBits + 1, Len(a)), 2 ^ (n % LimbBits)).q

\* bit i (bit 0 is the least significant) of a
BigBit(a, i) ==
    IF i \div LimbBits >= Len(a) THEN 0
    ELSE (a[i \div LimbBits + 1] \div (2 ^ (i % LimbBits))) % 2

\* some bit below bit n of a is set
BigLowNonZero(a, n) == BigShl(BigShr(a, n), n) # a

RECURSIVE SmallBitLen(_)
SmallBitLen(n) == IF n = 0 THEN 0 ELSE 1 + SmallBitLen(n \div 2)

BigBitLen(a) ==
    IF a = <<>> THEN 0
    ELSE LimbBits * (Len(a) - 1) + SmallBitLen(a[Len(a)])

RECURSIVE BigLessFrom(_, _, _)
BigLessFrom(a, b, i) ==
    IF i = 0 THEN FALSE
    ELSE IF a[i] # b[i] THEN a[i] < b[i]
    ELSE BigLessFrom(a, b, i - 1)

\* a < b
BigLess(a, b) ==
    IF Len(a) # Len(b) THEN Len(a) < Len(b) ELSE BigLessFrom(a, b, Len(a))

BigLeq(a, b) == a = b \/ BigLess(a, b)

BigOdd(a) == BigBit(a, 0) = 1

DigitChar == <<"0", "1", "2", "3", "4", "5", "6", "7", "8", "9">>

RECURSIVE BigToDec(_)
\* the decimal digits of a, most significant first ("" for zero)
BigToDec(a) ==
    IF a = <<>> THEN ""
    ELSE LET dm == BigDivMod(a, 10) IN BigToDec(dm.q) \o DigitChar[dm.r + 1]

(***************************************************************************)
(* Numbers.  A finite double is [k |-> "fin", m |-> mantissa, e |->        *)
(* exponent], standing for m * 2^e, kept canonical (m odd, or m zero and e *)
(* zero) so that equal numbers are equal values; NaN is the one other      *)
(* Number the handlers can produce from the inputs modelled here (no sign  *)
(* character is among them, and no magnitude near the ends of the range).  *)
(***************************************************************************)
MantissaBits == 53

NaN == [k |-> "nan", m |-> <<>>, e |-> 0]

RECURSIVE Canon(_, _)
Canon(m, e) ==
    IF m = <<>> THEN [k |-> "fin", m |-> <<>>, e |-> 0]
    ELSE IF BigOdd(m) THEN [k |-> "fin", m |-> m, e |-> e]
    ELSE Canon(BigShr(m, 1), e + 1)

\* The double nearest to m * 2^e (plus a little, when sticky), ties to even.
RoundToDouble(m, e, sticky) ==
    LET len == BigBitLen(m)
        d   == len - MantissaBits
    IN  IF d <= 0 THEN Canon(m, e)
        ELSE LET hi   == BigShr(m, d)
                 half == BigBit(m, d - 1) = 1
                 rest == sticky \/ BigLowNonZero(m, d - 1)
                 up   == half /\ (rest \/ BigOdd(hi))
             IN  Canon(IF up THEN BigAdd(hi, <<1>>) ELSE hi, e + d)

IsDigit(c) == \E d \in 1..10 : DigitChar[d] = c

DigitVal(c) == (CHOOSE d \in 1..10 : DigitChar[d] = c) - 1

RECURSIVE BigFromDigits(_, _)
\* the natural written by the digit characters ds, after the digits acc
BigFromDigits(acc, ds) ==
    IF ds = <<>> THEN acc
    ELSE BigFromDigits(BigAdd(BigMulSmall(acc, 10), BigFromNat(DigitVal(Head(ds)))),
                       Tail(ds))

RECURSIVE DivPow10(_, _, _)
\* floor(a / 10^k), and whether anything was cut off
DivPow10(a, k, cut) ==
    IF k = 0 THEN [q |-> a, cut |-> cut]
    ELSE LET dm == BigDivMod(a, 10) IN DivPow10(dm.q, k - 1, cut \/ dm.r # 0)

\* The double nearest to n / 10^k: the value of a decimal literal whose
\* digits (the point left out) write n, k of them after the point.
DecimalToDouble(n, k) ==
    LET s  == 64 + 4 * k
        dv == DivPow10(BigShl(n, s), k, FALSE)
    IN  RoundToDouble(dv.q, 0 - s, dv.cut)

Without(s, c) == SelectSeq(s, LAMBDA ch : ch # c)

RECURSIVE IndexOf(_, _)
\* position of the first c in s (Len(s) + 1 when there is none)
IndexOf(s, c) ==
    IF s = <<>> \/ Head(s) = c THEN 1 ELSE 1 + IndexOf(Tail(s), c)

\* A decimal literal: digits with at most one point and at least one digit.
IsDecimalLiteral(s) ==
    /\ \A i \in 1..Len(s) : IsDigit(s[i]) \/ s[i] = "."
    /\ Len(Without(s, ".")) >= Len(s) - 1
    /\ Len(Without(s, ".")) >= 1

\* ToNumber of a string (StringToNumber): the empty string is 0, a decimal
\* literal its nearest double, anything else NaN.
StringToNumber(s) ==
    IF s = <<>> THEN Canon(<<>>, 0)
    ELSE IF ~IsDecimalLiteral(s) THEN NaN
    ELSE DecimalToDouble(BigFromDigits(<<>>, Without(s, ".")),
                         IF IndexOf(s, ".") > Len(s) THEN 0
                         ELSE Len(s) - IndexOf(s, "."))

\* x * y on Numbers: NaN if either is NaN, else the exact product rounded.
NumberMultiply(x, y) ==
    IF x.k = "nan" \/ y.k = "nan" THEN NaN
    ELSE RoundToDouble(BigMul(x.m, y.m), x.e + y.e, FALSE)

\* ToFixedN cutting the digits off instead of rounding
ToFixedNTruncated(x) ==
    IF x.e >= 0 THEN BigShl(BigMulSmall(x.m, 100), x.e)
    ELSE BigShr(BigMulSmall(x.m, 100), 0 - x.e)

\* the integer n for which n / 100 - x is closest to zero, the larger of two
ToFixedN(x) ==
    LET t == BigMulSmall(x.m, 100)
    IN  IF x.e >= 0 THEN BigShl(t, x.e)
        ELSE IF BigBit(t, (0 - x.e) - 1) = 1
             THEN BigAdd(BigShr(t, 0 - x.e), <<1>>)
             ELSE BigShr(t, 0 - x.e)

\* Number.prototype.toFixed(2): "NaN" for NaN; else the digits of n with a
\* point before the last two, the integer part at least one digit.  (The
\* branch for x >= 10^21 is beyond the magnitudes modelled.)
ToFixed2(x) ==
    IF x.k = "nan" THEN "NaN"
    ELSE LET dm == BigDivMod(ToFixedN(x), 100)
         IN  (IF dm.q = <<>> THEN "0" ELSE BigToDec(dm.q))
             \o "." \o DigitChar[(dm.r \div 10) + 1] \o DigitChar[(dm.r % 10) + 1]

(***************************************************************************)
(* Text and objects.                                                       *)
(***************************************************************************)
RECURSIVE Str(_)
\* the string written by a sequence of characters
Str(s) == IF s = <<>> THEN "" ELSE Head(s) \o Str(Tail(s))

\* the object with no keys
NoKeys == <<>>

\* o.k ? ... for a key holding characters: present and not the empty text
TruthyText(o, k) == k \in DOMAIN o /\ o[k] # <<>>

\* o.k ? ... for a key holding a string: present and not the empty string
TruthyString(o, k) == k \in DOMAIN o /\ o[k] # ""

(***************************************************************************)
(* The server's state.  Every request has a slot.  A handler runs in two   *)
(* uninterrupted segments, before and after its await: pc is "idle" before *)
(* the request arrives, "awaiting" between the segments and "done" after   *)
(* the handler returned.                                                   *)
(***************************************************************************)
VARIABLES env, pc, req, calls, reply, sent

vars == <<env, pc, req, calls, reply, sent>>

NumSlots == 2

Slots == 1..NumSlots

\* process.env as read at startup (lines 10-12): a key that is not set is absent
Environments ==
    { w @@ c @@ g :
        w \in {NoKeys, "OPENWEATHER_API_KEY" :> "owm-key"},
        c \in {NoKeys, "CURRENCY_CONVERTER_API_KEY" :> "cc-key"},
        g \in {NoKeys, "GOOGLE_MAPS_API_KEY" :> "maps-key-1",
                       "GOOGLE_MAPS_API_KEY" :> "maps-key-2"} }

AllSet ==
    [OPENWEATHER_API_KEY |-> "owm-key", CURRENCY_CONVERTER_API_KEY |-> "cc-key",
     GOOGLE_MAPS_API_KEY |-> "maps-key-1"]

\* `${v}` of an environment value: the text, or "undefined"
EnvText(e, k) == IF k \in DOMAIN e THEN e[k] ELSE "undefined"

apiKey == EnvText(env, "OPENWEATHER_API_KEY")

currencyConverterApiKey == EnvText(env, "CURRENCY_CONVERTER_API_KEY")

Start(e) ==
    /\ env = e
    /\ pc = [i \in Slots |-> "idle"]
    /\ req = [i \in Slots |-> NoKeys]
    /\ calls = [i \in Slots |-> <<>>]
    /\ reply = [i \in Slots |-> NoKeys]
    /\ sent = [i \in Slots |-> <<>>]

\* res.status(code).send(text)
Send(i, code, text) ==
    sent' = [sent EXCEPT ![i] = Append(@, [status |-> code, text |-> text])]

\* axios.get(url): the call is issued and the handler suspends
Await(i, url) ==
    /\ calls' = [calls EXCEPT ![i] = Append(@, url)]
    /\ pc' = [pc EXCEPT ![i] = "awaiting"]

\* Resume whose catch runs after the try has sent: the response and then the
\* error body of a failure
ResumeSendsTwice(i, route, r, response) ==
    /\ pc[i] = "awaiting"
    /\ req[i].route = route
    /\ reply' = [reply EXCEPT ![i] = r]
    /\ sent' = [sent EXCEPT ![i] =
                  IF response.status = 200
                  THEN <<response, [status |-> 500, text |-> "Error"]>>
                  ELSE Append(@, response)]
    /\ pc' = [pc EXCEPT ![i] = "done"]
    /\ UNCHANGED <<env, req, calls>>

\* the second segment of a handler: the reply r arrives, the response goes out
Resume(i, route, r, response) ==
    /\ pc[i] = "awaiting"
    /\ req[i].route = route
    /\ reply' = [reply EXCEPT ![i] = r]
    /\ sent' = [sent EXCEPT ![i] = Append(@, response)]
    /\ pc' = [pc EXCEPT ![i] = "done"]
    /\ UNCHANGED <<env, req, calls>>

\* the requests that can arrive in slot i: any of them while the slot is free
Arriving(i, inputs) == IF pc[i] = "idle" THEN inputs ELSE {}

\* the replies that can arrive for slot i: any of them while its call to the
\* provider of the route is in flight
Pending(i, route, replies) ==
    IF pc[i] = "awaiting" /\ req[i].route = route THEN replies ELSE {}

\* axios.get rejects: no reply, a timeout, or a status outside 2xx
Failures ==
    { [ok |-> FALSE, error |-> e] : e \in {"network", "timeout", "status 404", "status 500"} }

Success(data) == [ok |-> TRUE, data |-> data]

JsonObject(o) == [t |-> "object", v |-> o]

JsonArray(a) == [t |-> "array", v |-> a]

JsonNull == [t |-> "null", v |-> NoKeys]

(***************************************************************************)
(* Formatting of whole numbers and of times.  The upstream numbers of the  *)
(* weather and country payloads are whole numbers here; the locale is      *)
(* en-US and the server's time zone UTC.                                   *)
(***************************************************************************)
RECURSIVE NatToText(_)
NatToText(n) ==
    IF n < 10 THEN DigitChar[n + 1]
    ELSE NatToText(n \div 10) \o DigitChar[(n % 10) + 1]

\* `${n}` of a whole number
IntToText(n) == IF n < 0 THEN "-" \o NatToText(0 - n) ELSE NatToText(n)

\* `${o.k}`: the number's text, or "undefined" when the key is absent
NumberText(o, k) == IF k \in DOMAIN o THEN IntToText(o[k]) ELSE "undefined"

Pad2(n) == DigitChar[(n \div 10) + 1] \o DigitChar[(n % 10) + 1]

Pad3(n) == DigitChar[(n \div 100) + 1] \o Pad2(n % 100)

RECURSIVE Grouped(_)
\* n.toLocaleString() of a natural: groups of three digits, separated by commas
Grouped(n) ==
    IF n < 1000 THEN NatToText(n)
    ELSE Grouped(n \div 1000) \o "," \o Pad3(n % 1000)

\* new Date(t * 1000).toLocaleTimeString() for t seconds after the epoch
LocaleTime(t) ==
    LET sod == t % 86400
        h   == sod \div 3600
        h12 == IF h % 12 = 0 THEN 12 ELSE h % 12
    IN  NatToText(h12) \o ":" \o Pad2((sod % 3600) \div 60) \o ":" \o Pad2(sod % 60)
        \o (IF h < 12 THEN " AM" ELSE " PM")

\* new Date(t * 1000).toLocaleDateString() for t seconds after the epoch
LocaleDate(t) ==
    LET z   == (t \div 86400) + 719468
        era == z \div 146097
        doe == z - era * 146097
        yoe == (doe - (doe \div 1460) + (doe \div 36524) - (doe \div 146096)) \div 365
        doy == doe - (365 * yoe + (yoe \div 4) - (yoe \div 100))
        mp  == (5 * doy + 2) \div 153
        d   == doy - ((153 * mp + 2) \div 5) + 1
        m   == IF mp < 10 THEN mp + 3 ELSE mp - 9
        y   == yoe + era * 400 + (IF m <= 2 THEN 1 ELSE 0)
    IN  NatToText(m) \o "/" \o NatToText(d) \o "/" \o NatToText(y)

\* the two, for o.k that may be absent (undefined * 1000 is NaN)
TimeOf(o, k) == IF k \in DOMAIN o THEN LocaleTime(o[k]) ELSE "Invalid Date"

DateOf(o, k) == IF k \in DOMAIN o THEN LocaleDate(o[k]) ELSE "Invalid Date"

RECURSIVE Join(_, _)
\* strings.join(sep)
Join(strings, sep) ==
    IF strings = <<>> THEN ""
    ELSE IF Len(strings) = 1 THEN strings[1]
    ELSE strings[1] \o sep \o Join(Tail(strings), sep)

\* the object {k: v} when v is defined, {} when it is not: JSON leaves out
\* the keys whose value is undefined
Field(k, defined, v) == IF defined THEN k :> v ELSE NoKeys

(***************************************************************************)
(* GET /currentWeather/:city/:country                                      *)
(***************************************************************************)
CurrentWeatherUrl(city, country) ==
    <<"https://api.openweathermap.org/data/2.5/weather", "?", "q", "=">>
    \o city \o <<",">> \o country
    \o <<"&", "units", "=", "metric", "&", "appid", "=", apiKey>>

CurrentWeatherStart(i, city, country) ==
    /\ pc[i] = "idle"
    /\ req' = [req EXCEPT ![i] = [route |-> "currentWeather",
                                  params |-> [city |-> city, country |-> country]]]
    /\ Await(i, CurrentWeatherUrl(city, country))
    /\ UNCHANGED <<env, reply, sent>>

\* reading the fields of weatherData throws a TypeError
CurrentWeatherThrows(weatherData) ==
    \/ weatherData.t # "object"
    \/ "weather" \notin DOMAIN weatherData.v
    \/ weatherData.v.weather = <<>>
    \/ "main" \notin DOMAIN weatherData.v
    \/ "wind" \notin DOMAIN weatherData.v
    \/ "sys" \notin DOMAIN weatherData.v

\* CurrentWeatherResponse describing the last weather condition, not the first
CurrentWeatherResponseLastCondition(city, country, r) ==
    IF ~r.ok \/ CurrentWeatherThrows(r.data)
    THEN [status |-> 500, text |-> "Error retrieving current weather"]
    ELSE LET weatherData == r.data.v
             last        == weatherData.weather[Len(weatherData.weather)]
         IN  [status |-> 200,
              json |-> [location |-> Str(city) \o ", " \o Str(country),
                        temperature |-> NumberText(weatherData.main, "temp") \o "°C",
                        feels_like |-> NumberText(weatherData.main, "feels_like") \o "°C",
                        humidity |-> NumberText(weatherData.main, "humidity") \o "%",
                        wind_speed |-> NumberText(weatherData.wind, "speed") \o " m/s",
                        sunrise |-> TimeOf(weatherData.sys, "sunrise"),
                        sunset |-> TimeOf(weatherData.sys, "sunset")]
                       @@ Field("description", "description" \in DOMAIN last,
                                last.description)]

CurrentWeatherResponse(city, country, r) ==
    IF ~r.ok \/ CurrentWeatherThrows(r.data)
    THEN [status |-> 500, text |-> "Error retrieving current weather"]
    ELSE LET weatherData == r.data.v
         IN  [status |-> 200,
              json |-> [location |-> Str(city) \o ", " \o Str(country),
                        temperature |-> NumberText(weatherData.main, "temp") \o "°C",
                        feels_like |-> NumberText(weatherData.main, "feels_like") \o "°C",
                        humidity |-> NumberText(weatherData.main, "humidity") \o "%",
                        wind_speed |-> NumberText(weatherData.wind, "speed") \o " m/s",
                        sunrise |-> TimeOf(weatherData.sys, "sunrise"),
                        sunset |-> TimeOf(weatherData.sys, "sunset")]
                       @@ Field("description",
                                "description" \in DOMAIN weatherData.weather[1],
                                weatherData.weather[1].description)]

CurrentWeatherResume(i, r) ==
    Resume(i, "currentWeather", r,
           CurrentWeatherResponse(req[i].params.city, req[i].params.country, r))

(***************************************************************************)
(* GET /forecast/:city/:country                                            *)
(***************************************************************************)
ForecastUrl(city, country) ==
    <<"https://api.openweathermap.org/data/2.5/forecast", "?", "q", "=">>
    \o city \o <<",">> \o country
    \o <<"&", "units", "=", "metric", "&", "appid", "=", apiKey>>

ForecastStart(i, city, country) ==
    /\ pc[i] = "idle"
    /\ req' = [req EXCEPT ![i] = [route |-> "forecast",
                                  params |-> [city |-> city, country |-> country]]]
    /\ Await(i, ForecastUrl(city, country))
    /\ UNCHANGED <<env, reply, sent>>

\* the callback of map throws a TypeError on this entry
ForecastEntryThrows(entry) ==
    \/ "main" \notin DOMAIN entry
    \/ "weather" \notin DOMAIN entry
    \/ entry.weather = <<>>
    \/ "wind" \notin DOMAIN entry

ForecastEntry(entry) ==
    [date |-> DateOf(entry, "dt"),
     time |-> TimeOf(entry, "dt"),
     temperature |-> NumberText(entry.main, "temp") \o "°C",
     feels_like |-> NumberText(entry.main, "feels_like") \o "°C",
     wind_speed |-> NumberText(entry.wind, "speed") \o " m/s",
     humidity |-> NumberText(entry.main, "humidity") \o "%"]
    @@ Field("main", "main" \in DOMAIN entry.weather[1], entry.weather[1].main)
    @@ Field("description", "description" \in DOMAIN entry.weather[1],
             entry.weather[1].description)

ForecastThrows(data) ==
    \/ data.t # "object"
    \/ "list" \notin DOMAIN data.v
    \/ \E n \in 1..Len(data.v.list) : ForecastEntryThrows(data.v.list[n])

\* ForecastResponse mapping the entries from the last to the first
ForecastResponseReversed(city, country, r) ==
    IF ~r.ok \/ ForecastThrows(r.data)
    THEN [status |-> 500, text |-> "Error retrieving 5-day forecast"]
    ELSE LET list == r.data.v.list
         IN  [status |-> 200,
              json |-> [location |-> Str(city) \o ", " \o Str(country),
                        forecast |-> [n \in 1..Len(list)
                                        |-> ForecastEntry(list[Len(list) + 1 - n])]]]

ForecastResponse(city, country, r) ==
    IF ~r.ok \/ ForecastThrows(r.data)
    THEN [status |-> 500, text |-> "Error retrieving 5-day forecast"]
    ELSE [status |-> 200,
          json |-> [location |-> Str(city) \o ", " \o Str(country),
                    forecast |-> [n \in 1..Len(r.data.v.list)
                                    |-> ForecastEntry(r.data.v.list[n])]]]

ForecastResume(i, r) ==
    Resume(i, "forecast", r,
           ForecastResponse(req[i].params.city, req[i].params.country, r))

(***************************************************************************)
(* GET /country/:countryName                                               *)
(***************************************************************************)
NotAvailable == "Not Available"

CountryUrl(countryName) == <<"https://restcountries.com/v3.1/name/">> \o countryName

CountryStart(i, countryName) ==
    /\ pc[i] = "idle"
    /\ req' = [req EXCEPT ![i] = [route |-> "country",
                                  params |-> [countryName |-> countryName]]]
    /\ Await(i, CountryUrl(countryName))
    /\ UNCHANGED <<env, reply, sent>>

\* c.name of each currency, undefined written as the empty string by join
CurrencyNames(currencies) ==
    [n \in 1..Len(currencies) |->
        IF "name" \in DOMAIN currencies[n] THEN currencies[n].name ELSE ""]

\* building countryInfo throws a TypeError
CountryThrows(data) ==
    \/ data.t # "array"
    \/ data.v = <<>>
    \/ "name" \notin DOMAIN data.v[1]
    \/ "population" \notin DOMAIN data.v[1]
    \/ "area" \notin DOMAIN data.v[1]
    \/ "flags" \notin DOMAIN data.v[1]

\* CapitalCity taking the last capital instead of the first
CapitalCityLast(country) ==
    IF "capital" \notin DOMAIN country THEN "capitalCity" :> NotAvailable
    ELSE Field("capitalCity", country.capital # <<>>,
               country.capital[Len(country.capital)])

\* country.capital ? country.capital[0] : 'Not Available' (an array is truthy
\* even when empty, and the first element of an empty array is undefined)
CapitalCity(country) ==
    IF "capital" \notin DOMAIN country THEN "capitalCity" :> NotAvailable
    ELSE Field("capitalCity", country.capital # <<>>, Head(country.capital))

CountryInfo(country) ==
    [population |-> Grouped(country.population),
     area |-> Grouped(country.area) \o " km²",
     officialLanguage |-> IF "languages" \in DOMAIN country
                          THEN Join(country.languages, ", ") ELSE NotAvailable,
     currencies |-> IF "currencies" \in DOMAIN country
                    THEN Join(CurrencyNames(country.currencies), ", ")
                    ELSE NotAvailable,
     subregion |-> IF TruthyString(country, "subregion")
                   THEN country.subregion ELSE NotAvailable,
     flag |-> IF TruthyString(country.flags, "svg")
              THEN country.flags.svg ELSE NotAvailable]
    @@ CapitalCity(country)
    @@ Field("countryName", "common" \in DOMAIN country.name, country.name.common)
    @@ Field("region", "region" \in DOMAIN country, country.region)

\* building countryInfo from the last match throws a TypeError
CountryThrowsOnLast(data) ==
    \/ data.t # "array"
    \/ data.v = <<>>
    \/ {"name", "population", "area", "flags"} \ DOMAIN data.v[Len(data.v)] # {}

\* CountryResponse taking the last match instead of the first
CountryResponseLastMatch(countryName, r) ==
    IF ~r.ok \/ CountryThrowsOnLast(r.data)
    THEN [status |-> 500,
          text |-> "Error retrieving information about " \o Str(countryName)]
    ELSE [status |-> 200, json |-> CountryInfo(r.data.v[Len(r.data.v)])]

\* CountryResponse whose catch sends the text without setting the status
CountryResponseNoStatus(countryName, r) ==
    IF ~r.ok \/ CountryThrows(r.data)
    THEN [status |-> 200,
          text |-> "Error retrieving information about " \o Str(countryName)]
    ELSE [status |-> 200, json |-> CountryInfo(r.data.v[1])]

CountryResponse(countryName, r) ==
    IF ~r.ok \/ CountryThrows(r.data)
    THEN [status |-> 500,
          text |-> "Error retrieving information about " \o Str(countryName)]
    ELSE [status |-> 200, json |-> CountryInfo(r.data.v[1])]

CountryResume(i, r) ==
    Resume(i, "country", r, CountryResponse(req[i].params.countryName, r))

(***************************************************************************)
(* GET /continent/:continentName                                           *)
(***************************************************************************)
UpperLetters ==
    <<"A", "B", "C", "D", "E", "F", "G", "H", "I", "J", "K", "L", "M",
      "N", "O", "P", "Q", "R", "S", "T", "U", "V", "W", "X", "Y", "Z">>

LowerLetters ==
    <<"a", "b", "c", "d", "e", "f", "g", "h", "i", "j", "k", "l", "m",
      "n", "o", "p", "q", "r", "s", "t", "u", "v", "w", "x", "y", "z">>

LowerChar(c) ==
    IF \E n \in 1..26 : UpperLetters[n] = c
    THEN LowerLetters[CHOOSE n \in 1..26 : UpperLetters[n] = c]
    ELSE c

UpperChar(c) ==
    IF \E n \in 1..26 : LowerLetters[n] = c
    THEN UpperLetters[CHOOSE n \in 1..26 : LowerLetters[n] = c]
    ELSE c

\* text.toLowerCase(): every character has a lower case of one character
ToLowerCase(text) == [n \in 1..Len(text) |-> LowerChar(text[n])]

RECURSIVE ToUpperCase(_)
\* text.toUpperCase(): the upper case of a character may be longer than the
\* character, as "SS" for "ß"
ToUpperCase(text) ==
    IF text = <<>> THEN <<>>
    ELSE (IF Head(text) = "ß" THEN <<"S", "S">> ELSE <<UpperChar(Head(text))>>)
         \o ToUpperCase(Tail(text))

ContinentUrl == <<"https://restcountries.com/v3.1/all">>

ContinentStart(i, continentName) ==
    /\ pc[i] = "idle"
    /\ req' = [req EXCEPT ![i] = [route |-> "continent",
                                  params |-> [continentName |-> continentName]]]
    /\ Await(i, ContinentUrl)
    /\ UNCHANGED <<env, reply, sent>>

\* InContinent comparing the region as it is with the lower-cased name
InContinentRegionAsIs(country, continentName) ==
    /\ "region" \in DOMAIN country
    /\ country.region = ToLowerCase(continentName)

\* country.region?.toLowerCase() === continentName.toLowerCase()
InContinent(country, continentName) ==
    /\ "region" \in DOMAIN country
    /\ ToLowerCase(country.region) = ToLowerCase(continentName)

\* ContinentEntryThrows with the area read as the country route reads it
ContinentEntryThrowsOnArea(country) ==
    \/ "name" \notin DOMAIN country
    \/ "population" \notin DOMAIN country
    \/ "area" \notin DOMAIN country
    \/ "flags" \notin DOMAIN country

\* the callback of map throws a TypeError on this country
ContinentEntryThrows(country) ==
    \/ "name" \notin DOMAIN country
    \/ "population" \notin DOMAIN country
    \/ "flags" \notin DOMAIN country

ContinentEntry(country) ==
    [population |-> Grouped(country.population),
     area |-> IF "area" \in DOMAIN country /\ country.area # 0
              THEN Grouped(country.area) \o " km²" ELSE NotAvailable,
     languages |-> IF "languages" \in DOMAIN country
                   THEN Join(country.languages, ", ") ELSE NotAvailable,
     flag |-> IF TruthyString(country.flags, "svg")
              THEN country.flags.svg ELSE NotAvailable]
    @@ CapitalCity(country)
    @@ Field("countryName", "common" \in DOMAIN country.name, country.name.common)

\* CountriesFiltered giving the matches from the last to the first
CountriesFilteredReversed(catalog, continentName) ==
    LET filtered == SelectSeq(catalog, LAMBDA country : InContinent(country, continentName))
    IN  [n \in 1..Len(filtered) |-> filtered[Len(filtered) + 1 - n]]

CountriesFiltered(catalog, continentName) ==
    SelectSeq(catalog, LAMBDA country : InContinent(country, continentName))

\* ContinentThrows with the entries built before the filter: any record of
\* the catalog that cannot be read fails the request
ContinentThrowsOnAnyRecord(data, continentName) ==
    \/ data.t # "array"
    \/ \E n \in 1..Len(data.v) : ContinentEntryThrows(data.v[n])

ContinentThrows(data, continentName) ==
    \/ data.t # "array"
    \/ \E n \in 1..Len(data.v) :
          /\ InContinent(data.v[n], continentName)
          /\ ContinentEntryThrows(data.v[n])

\* ContinentLabel leaving the characters after the first as they are
ContinentLabelFirstOnly(continentName) ==
    IF continentName = <<>> THEN <<>>
    ELSE ToUpperCase(<<Head(continentName)>>) \o Tail(continentName)

\* continentName.charAt(0).toUpperCase() + continentName.slice(1).toLowerCase()
ContinentLabel(continentName) ==
    IF continentName = <<>> THEN <<>>
    ELSE ToUpperCase(<<Head(continentName)>>) \o ToLowerCase(Tail(continentName))

\* ContinentResponse treating an empty selection as a failure
ContinentResponseEmptyFails(continentName, r) ==
    IF \/ ~r.ok
       \/ ContinentThrows(r.data, continentName)
       \/ CountriesFiltered(r.data.v, continentName) = <<>>
    THEN [status |-> 500,
          text |-> "Error retrieving list of countries in " \o Str(continentName)]
    ELSE LET filtered == CountriesFiltered(r.data.v, continentName)
         IN  [status |-> 200,
              json |-> [continent |-> ContinentLabel(continentName),
                        numberOfCountries |-> Len(filtered),
                        countries |-> [n \in 1..Len(filtered)
                                         |-> ContinentEntry(filtered[n])]]]

ContinentResponse(continentName, r) ==
    IF ~r.ok \/ ContinentThrows(r.data, continentName)
    THEN [status |-> 500,
          text |-> "Error retrieving list of countries in " \o Str(continentName)]
    ELSE LET filtered == CountriesFiltered(r.data.v, continentName)
             countriesInContinent ==
                 [n \in 1..Len(filtered) |-> ContinentEntry(filtered[n])]
         IN  [status |-> 200,
              json |-> [continent |-> ContinentLabel(continentName),
                        numberOfCountries |-> Len(countriesInContinent),
                        countries |-> countriesInContinent]]

ContinentResume(i, r) ==
    Resume(i, "continent", r, ContinentResponse(req[i].params.continentName, r))

(***************************************************************************)
(* GET /api/maps-api-key                                                   *)
(***************************************************************************)
\* MapsApiKey answering with another of the credentials
MapsApiKeyOtherCredential(i) ==
    /\ pc[i] = "idle"
    /\ req' = [req EXCEPT ![i] = [route |-> "maps-api-key"]]
    /\ sent' = [sent EXCEPT ![i] =
                  Append(@, [status |-> 200,
                             json |-> Field("apiKey", "OPENWEATHER_API_KEY" \in DOMAIN env,
                                            env.OPENWEATHER_API_KEY)])]
    /\ pc' = [pc EXCEPT ![i] = "done"]
    /\ UNCHANGED <<env, calls, reply>>

MapsApiKey(i) ==
    /\ pc[i] = "idle"
    /\ req' = [req EXCEPT ![i] = [route |-> "maps-api-key"]]
    /\ sent' = [sent EXCEPT ![i] =
                  Append(@, [status |-> 200,
                             json |-> Field("apiKey", "GOOGLE_MAPS_API_KEY" \in DOMAIN env,
                                            env.GOOGLE_MAPS_API_KEY)])]
    /\ pc' = [pc EXCEPT ![i] = "done"]
    /\ UNCHANGED <<env, calls, reply>>

(***************************************************************************)
(* GET /convert/usd-to-eur and GET /convert/jpy-to-gbp                     *)
(***************************************************************************)
UsdToEurUrl ==
    <<"https://free.currconv.com/api/v7/convert", "?", "q", "=", "USD_EUR",
      "&", "compact", "=", "ultra", "&", "apiKey", "=", currencyConverterApiKey>>

\* UsdToEurStart without the return of line 154: the 400 goes out and the
\* handler carries on to the upstream call
UsdToEurStartNoReturn(i, query) ==
    /\ pc[i] = "idle"
    /\ req' = [req EXCEPT ![i] = [route |-> "usd-to-eur", query |-> query]]
    /\ IF ~TruthyText(query, "amount")
       THEN Send(i, 400, "Please provide an amount to convert.")
       ELSE UNCHANGED sent
    /\ Await(i, UsdToEurUrl)
    /\ UNCHANGED <<env, reply>>

UsdToEurStart(i, query) ==
    /\ pc[i] = "idle"
    /\ req' = [req EXCEPT ![i] = [route |-> "usd-to-eur", query |-> query]]
    /\ IF ~TruthyText(query, "amount")
       THEN /\ Send(i, 400, "Please provide an amount to convert.")
            /\ pc' = [pc EXCEPT ![i] = "done"]
            /\ UNCHANGED calls
       ELSE /\ Await(i, UsdToEurUrl)
            /\ UNCHANGED sent
    /\ UNCHANGED <<env, reply>>

\* UsdToEurResponse with a check the code does not make: a product that is
\* not a number is answered with the 400
UsdToEurResponseRejectsNaN(amountUSD, r) ==
    IF ~r.ok \/ r.data.t = "null"
    THEN [status |-> 500, text |-> "Error converting USD to EUR"]
    ELSE IF "USD_EUR" \notin DOMAIN r.data.v \/ StringToNumber(amountUSD) = NaN
    THEN [status |-> 400, text |-> "Please provide an amount to convert."]
    ELSE [status |-> 200,
          json |-> [fromCurrency |-> "USD",
                    toCurrency |-> "EUR",
                    originalAmount |-> Str(amountUSD) \o " USD",
                    convertedAmount |->
                        ToFixed2(NumberMultiply(StringToNumber(amountUSD),
                                                r.data.v.USD_EUR)) \o " EUR",
                    conversionRate |-> r.data.v.USD_EUR]]

UsdToEurResponse(amountUSD, r) ==
    IF ~r.ok \/ r.data.t = "null"
    THEN [status |-> 500, text |-> "Error converting USD to EUR"]
    ELSE LET hasRate         == "USD_EUR" \in DOMAIN r.data.v
             product         == IF hasRate
                                THEN NumberMultiply(StringToNumber(amountUSD),
                                                    r.data.v.USD_EUR)
                                ELSE NaN
             convertedAmount == ToFixed2(product)
         IN  [status |-> 200,
              json |-> [fromCurrency |-> "USD",
                        toCurrency |-> "EUR",
                        originalAmount |-> Str(amountUSD) \o " USD",
                        convertedAmount |-> convertedAmount \o " EUR"]
                       @@ (IF hasRate THEN "conversionRate" :> r.data.v.USD_EUR
                           ELSE NoKeys)]

UsdToEurResume(i, r) ==
    Resume(i, "usd-to-eur", r, UsdToEurResponse(req[i].query.amount, r))

JpyToGbpUrl ==
    <<"https://free.currconv.com/api/v7/convert", "?", "q", "=", "JPY_GBP",
      "&", "compact", "=", "ultra", "&", "apiKey", "=", currencyConverterApiKey>>

\* JpyToGbpStart testing the amount as a number: zero counts as missing
JpyToGbpStartRejectsZero(i, query) ==
    /\ pc[i] = "idle"
    /\ req' = [req EXCEPT ![i] = [route |-> "jpy-to-gbp", query |-> query]]
    /\ IF ~TruthyText(query, "amount") \/ StringToNumber(query.amount) = Canon(<<>>, 0)
       THEN /\ Send(i, 400, "Please provide an amount to convert.")
            /\ pc' = [pc EXCEPT ![i] = "done"]
            /\ UNCHANGED calls
       ELSE /\ Await(i, JpyToGbpUrl)
            /\ UNCHANGED sent
    /\ UNCHANGED <<env, reply>>

JpyToGbpStart(i, query) ==
    /\ pc[i] = "idle"
    /\ req' = [req EXCEPT ![i] = [route |-> "jpy-to-gbp", query |-> query]]
    /\ IF ~TruthyText(query, "amount")
       THEN /\ Send(i, 400, "Please provide an amount to convert.")
            /\ pc' = [pc EXCEPT ![i] = "done"]
            /\ UNCHANGED calls
       ELSE /\ Await(i, JpyToGbpUrl)
            /\ UNCHANGED sent
    /\ UNCHANGED <<env, reply>>

\* JpyToGbpResponse with the catch copied from the other handler, message
\* included
JpyToGbpResponseUsdMessage(amountJPY, r) ==
    IF ~r.ok \/ r.data.t = "null"
    THEN [status |-> 500, text |-> "Error converting USD to EUR"]
    ELSE LET hasRate         == "JPY_GBP" \in DOMAIN r.data.v
             product         == IF hasRate
                                THEN NumberMultiply(StringToNumber(amountJPY),
                                                    r.data.v.JPY_GBP)
                                ELSE NaN
             convertedAmount == ToFixed2(product)
         IN  [status |-> 200,
              json |-> [fromCurrency |-> "JPY",
                        toCurrency |-> "GBP",
                        originalAmount |-> Str(amountJPY) \o " JPY",
                        convertedAmount |-> convertedAmount \o " GBP"]
                       @@ (IF hasRate THEN "conversionRate" :> r.data.v.JPY_GBP
                           ELSE NoKeys)]

JpyToGbpResponse(amountJPY, r) ==
    IF ~r.ok \/ r.data.t = "null"
    THEN [status |-> 500, text |-> "Error converting JPY to GBP"]
    ELSE LET hasRate         == "JPY_GBP" \in DOMAIN r.data.v
             product         == IF hasRate
                                THEN NumberMultiply(StringToNumber(amountJPY),
                                                    r.data.v.JPY_GBP)
                                ELSE NaN
             convertedAmount == ToFixed2(product)
         IN  [status |-> 200,
              json |-> [fromCurrency |-> "JPY",
                        toCurrency |-> "GBP",
                        originalAmount |-> Str(amountJPY) \o " JPY",
                        convertedAmount |-> convertedAmount \o " GBP"]
                       @@ (IF hasRate THEN "conversionRate" :> r.data.v.JPY_GBP
                           ELSE NoKeys)]

JpyToGbpResume(i, r) ==
    Resume(i, "jpy-to-gbp", r, JpyToGbpResponse(req[i].query.amount, r))

(***************************************************************************)
(* The inputs of the currency routes.                                      *)
(***************************************************************************)
MaxAmountLen == 4

AmountChars == {"0", "1", "3", ".", "a"}

RECURSIVE TextsUpTo(_, _)
\* the texts of at most n characters drawn from chars
TextsUpTo(chars, n) ==
    IF n = 0 THEN {<<>>}
    ELSE LET shorter == TextsUpTo(chars, n - 1)
         IN  shorter \cup { <<c>> \o t : c \in chars, t \in {u \in shorter : Len(u) = n - 1} }

\* req.query: no amount, or amount = any text (the empty one included)
AmountQueries ==
    {NoKeys} \cup { "amount" :> a : a \in TextsUpTo(AmountChars, MaxAmountLen) }

RateLiterals == { <<"1">>, <<"0", ".", "9", "2">>, <<"0", ".", "5">> }

\* the currency provider's replies: a failure, {"<pair>": rate}, {} or null
CurrencyReplies(pair) ==
    Failures
    \cup { Success(JsonObject(pair :> StringToNumber(lit))) : lit \in RateLiterals }
    \cup { Success(JsonObject(NoKeys)), Success(JsonObject("error" :> "x")),
           Success(JsonNull) }

UsdEurReplies == CurrencyReplies("USD_EUR")

JpyGbpReplies == CurrencyReplies("JPY_GBP")

InitCurrency == Start(AllSet)

NextCurrency ==
    \/ \E q \in Arriving(1, AmountQueries) : UsdToEurStart(1, q)
    \/ \E r \in Pending(1, "usd-to-eur", UsdEurReplies) : UsdToEurResume(1, r)
    \/ \E q \in Arriving(1, AmountQueries) : JpyToGbpStart(1, q)
    \/ \E r \in Pending(1, "jpy-to-gbp", JpyGbpReplies) : JpyToGbpResume(1, r)

SpecCurrency == InitCurrency /\ [][NextCurrency]_vars

(***************************************************************************)
(* The inputs of the other routes.                                         *)
(***************************************************************************)
MaxNameLen == 2

NameChars == {"a", "A", "b"}

\* a path parameter: Express matches a segment of at least one character
Names == TextsUpTo(NameChars, MaxNameLen) \ {<<>>}

FullCountry ==
    [name |-> [common |-> "France", official |-> "French Republic"],
     capital |-> <<"Paris">>,
     population |-> 67391582,
     area |-> 551695,
     languages |-> <<"French">>,
     currencies |-> <<[name |-> "Euro", symbol |-> "E"]>>,
     region |-> <<"A", "b">>,
     subregion |-> "Western Europe",
     flags |-> [svg |-> "https://flagcdn.com/fr.svg", png |-> "https://flagcdn.com/fr.png"]]

CountryFields ==
    <<"name", "capital", "population", "area", "languages", "currencies",
      "region", "subregion", "flags">>

\* what a country record may hold for the key f instead of FullCountry's
\* value: nothing (the key is absent), or another value of the key's type
Alternatives(f) ==
    {NoKeys} \cup
    CASE f = "name"       -> {f :> [official |-> "French Republic"]}
      [] f = "capital"    -> {f :> <<>>, f :> <<"Pretoria", "Cape Town">>, f :> <<"">>}
      [] f = "population" -> {f :> 0, f :> 999}
      [] f = "area"       -> {f :> 0, f :> 1000}
      [] f = "languages"  -> {f :> <<>>, f :> <<"Dutch", "French", "German">>}
      [] f = "currencies" -> {f :> <<>>, f :> <<[name |-> "Euro"], [name |-> "Franc"]>>,
                              f :> <<[symbol |-> "E"]>>}
      [] f = "region"     -> {f :> <<"a", "b">>, f :> <<"b">>, f :> <<>>}
      [] f = "subregion"  -> {f :> ""}
      [] f = "flags"      -> {f :> [png |-> "https://flagcdn.com/fr.png"],
                              f :> [svg |-> ""]}

RECURSIVE Variants(_, _)
\* the records over the keys fs that differ from FullCountry in at most k keys
Variants(fs, k) ==
    IF fs = <<>> THEN {NoKeys}
    ELSE LET f == Head(fs)
         IN  { (f :> FullCountry[f]) @@ rest : rest \in Variants(Tail(fs), k) }
             \cup (IF k = 0 THEN {}
                   ELSE { alt @@ rest : alt \in Alternatives(f),
                                        rest \in Variants(Tail(fs), k - 1) })

MaxVaried == 2

CountryRecords == Variants(CountryFields, MaxVaried)

\* the country provider's replies to a lookup by name: a failure, a body that
\* is no list, or a list of matches (its first one any record)
CountryReplies(records) ==
    Failures
    \cup { Success(JsonNull), Success(JsonObject([status |-> 404])),
           Success(JsonArray(<<>>)) }
    \cup { Success(JsonArray(<<first>> \o others)) :
             first \in records, others \in {<<>>, <<FullCountry>>, <<NoKeys>>} }

SomeCountryReplies == CountryReplies(Variants(CountryFields, 1))

AllCountryReplies == CountryReplies(CountryRecords)

MaxCatalog == 2

\* the records of a catalog: each region, with every key, without area or
\* without name
CatalogRecords ==
    LET shaped(region, common) ==
            LET named == [FullCountry EXCEPT !.name.common = common]
                full  == region @@ [k \in DOMAIN named \ {"region"} |-> named[k]]
            IN  { [k \in DOMAIN full \ drop |-> full[k]] : drop \in {{}, {"area"}, {"name"}} }
    IN  UNION { shaped(NoKeys, "Nowhere"),
                shaped("region" :> <<"a", "b">>, "Abland"),
                shaped("region" :> <<"A", "B">>, "Upper Abland"),
                shaped("region" :> <<"b">>, "Bland") }

RECURSIVE ListsUpTo(_, _)
\* the lists of at most n elements of items
ListsUpTo(items, n) ==
    IF n = 0 THEN {<<>>}
    ELSE LET shorter == ListsUpTo(items, n - 1)
         IN  shorter \cup { <<x>> \o l : x \in items, l \in {u \in shorter : Len(u) = n - 1} }

\* the country provider's replies to the request for all countries
ContinentReplies ==
    Failures
    \cup { Success(JsonNull), Success(JsonObject([message |-> "Not Found"])) }
    \cup { Success(JsonArray(catalog)) : catalog \in ListsUpTo(CatalogRecords, MaxCatalog) }

FullWeather ==
    [weather |-> <<[main |-> "Clouds", description |-> "few clouds"],
                   [main |-> "Rain", description |-> "light rain"]>>,
     main |-> [temp |-> 21, feels_like |-> 19, humidity |-> 60],
     wind |-> [speed |-> 4],
     sys |-> [sunrise |-> 1700029800, sunset |-> 1700065815]]

\* the weather provider's replies for the current weather
WeatherReplies ==
    Failures
    \cup { Success(JsonNull), Success(JsonObject(NoKeys)),
           Success(JsonObject(FullWeather)),
           Success(JsonObject([FullWeather EXCEPT !.weather = <<>>])),
           Success(JsonObject([FullWeather EXCEPT !.weather = <<[main |-> "Clear"]>>])),
           Success(JsonObject([FullWeather EXCEPT !.main = [temp |-> 0 - 5]])),
           Success(JsonObject([FullWeather EXCEPT !.sys = NoKeys])) }
    \cup { Success(JsonObject([k \in DOMAIN FullWeather \ {drop} |-> FullWeather[k]])) :
             drop \in DOMAIN FullWeather }

FullEntry ==
    [dt |-> 1700049600,
     main |-> [temp |-> 12, feels_like |-> 10, humidity |-> 81],
     weather |-> <<[main |-> "Rain", description |-> "light rain"]>>,
     wind |-> [speed |-> 7]]

ForecastEntries ==
    { FullEntry,
      [FullEntry EXCEPT !.dt = 1700060400, !.main = [temp |-> 0 - 3]],
      [FullEntry EXCEPT !.weather = <<>>] }
    \cup { [k \in DOMAIN FullEntry \ {drop} |-> FullEntry[k]] : drop \in DOMAIN FullEntry }

MaxForecast == 2

\* the weather provider's replies for the forecast
ForecastReplies ==
    Failures
    \cup { Success(JsonNull), Success(JsonObject(NoKeys)),
           Success(JsonObject([cod |-> "200", list |-> <<>>])) }
    \cup { Success(JsonObject([cod |-> "200", list |-> l])) :
             l \in ListsUpTo(ForecastEntries, MaxForecast) }

\* every route, one request
InitRoutes == \E e \in Environments : Start(e)

SomeNames == {<<"a">>, <<"A", "b">>}

SomeQueries ==
    {NoKeys} \cup { "amount" :> a : a \in {<<>>, <<"1", "0", "0">>, <<"1", "a">>, <<"0">>} }

SomeContinentReplies ==
    Failures
    \cup { Success(JsonNull), Success(JsonObject([message |-> "Not Found"])) }
    \cup { Success(JsonArray(catalog)) : catalog \in ListsUpTo(CatalogRecords, 1) }

NextRoutes ==
    \/ \E city \in Arriving(1, SomeNames), country \in SomeNames :
          CurrentWeatherStart(1, city, country)
    \/ \E r \in Pending(1, "currentWeather", WeatherReplies) : CurrentWeatherResume(1, r)
    \/ \E city \in Arriving(1, SomeNames), country \in SomeNames :
          ForecastStart(1, city, country)
    \/ \E r \in Pending(1, "forecast", ForecastReplies) : ForecastResume(1, r)
    \/ \E countryName \in Arriving(1, SomeNames) : CountryStart(1, countryName)
    \/ \E r \in Pending(1, "country", SomeCountryReplies) : CountryResume(1, r)
    \/ \E continentName \in Arriving(1, SomeNames) : ContinentStart(1, continentName)
    \/ \E r \in Pending(1, "continent", SomeContinentReplies) : ContinentResume(1, r)
    \/ MapsApiKey(1)
    \/ \E q \in Arriving(1, SomeQueries) : UsdToEurStart(1, q)
    \/ \E r \in Pending(1, "usd-to-eur", UsdEurReplies) : UsdToEurResume(1, r)
    \/ \E q \in Arriving(1, SomeQueries) : JpyToGbpStart(1, q)
    \/ \E r \in Pending(1, "jpy-to-gbp", JpyGbpReplies) : JpyToGbpResume(1, r)

SpecRoutes == InitRoutes /\ [][NextRoutes]_vars

\* the country route, every record
InitCountry == Start(AllSet)

NextCountry ==
    \/ \E countryName \in Arriving(1, SomeNames) : CountryStart(1, countryName)
    \/ \E r \in Pending(1, "country", AllCountryReplies) : CountryResume(1, r)

SpecCountry == InitCountry /\ [][NextCountry]_vars

\* the continent route, every name and catalog
InitContinent == Start(AllSet)

NextContinent ==
    \/ \E continentName \in Arriving(1, Names) : ContinentStart(1, continentName)
    \/ \E r \in Pending(1, "continent", ContinentReplies) : ContinentResume(1, r)

SpecContinent == InitContinent /\ [][NextContinent]_vars

\* the continent route, names with a character whose upper case is longer
LabelChars == {"a", "A", "ß"}

LabelNames == TextsUpTo(LabelChars, MaxNameLen) \ {<<>>}

InitLabel == Start(AllSet)

NextLabel ==
    \/ \E continentName \in Arriving(1, LabelNames) : ContinentStart(1, continentName)
    \/ \E r \in Pending(1, "continent", SomeContinentReplies) : ContinentResume(1, r)

SpecLabel == InitLabel /\ [][NextLabel]_vars

(***************************************************************************)
(* Requests in flight together.  Every slot holds a request of its own;    *)
(* the segments of the handlers interleave on the event loop.  The reply   *)
(* to a call arrives in one step and the handler that awaits it continues  *)
(* in a later one (Resume is the two steps taken together).  A client may  *)
(* close its connection while its handler awaits; no handler listens for   *)
(* that event.                                                             *)
(***************************************************************************)
\* the connection of request i was closed by the client
Closed(i) == "destroyed" \in DOMAIN req[i]

\* what the handler of a request answers to the reply r, by the route the
\* request was dispatched to
HandlerResponse(request, r) ==
    CASE request.route = "currentWeather" ->
            CurrentWeatherResponse(request.params.city, request.params.country, r)
      [] request.route = "forecast" ->
            ForecastResponse(request.params.city, request.params.country, r)
      [] request.route = "country" -> CountryResponse(request.params.countryName, r)
      [] request.route = "continent" ->
            ContinentResponse(request.params.continentName, r)
      [] request.route = "usd-to-eur" -> UsdToEurResponse(request.query.amount, r)
      [] request.route = "jpy-to-gbp" -> JpyToGbpResponse(request.query.amount, r)

\* the promise of axios.get settles: the reply r to the call of request i
Resolve(i, r) ==
    /\ pc[i] = "awaiting"
    /\ reply' = [reply EXCEPT ![i] = r]
    /\ pc' = [pc EXCEPT ![i] = "resolved"]
    /\ UNCHANGED <<env, req, calls, sent>>

\* Continue calling axios.get once more after a call that failed
ContinueRetries(i) ==
    /\ pc[i] = "resolved"
    /\ IF ~reply[i].ok /\ Len(calls[i]) = 1
       THEN /\ calls' = [calls EXCEPT ![i] = Append(@, Head(@))]
            /\ pc' = [pc EXCEPT ![i] = "awaiting"]
            /\ UNCHANGED sent
       ELSE /\ sent' = IF Closed(i) THEN sent
                       ELSE [sent EXCEPT ![i] = Append(@, HandlerResponse(req[i], reply[i]))]
            /\ pc' = [pc EXCEPT ![i] = "done"]
            /\ UNCHANGED calls
    /\ UNCHANGED <<env, req, reply>>

\* Continue reading the reply from a variable of the module that every
\* handler assigns: the reply of the lowest request whose reply has arrived
ContinueSharedReply(i) ==
    /\ pc[i] = "resolved"
    /\ LET response == reply[CHOOSE j \in Slots :
                                /\ reply[j] # NoKeys
                                /\ \A k \in Slots : reply[k] # NoKeys => j <= k]
       IN  sent' = IF Closed(i) THEN sent
                   ELSE [sent EXCEPT ![i] = Append(@, HandlerResponse(req[i], response))]
    /\ pc' = [pc EXCEPT ![i] = "done"]
    /\ UNCHANGED <<env, req, calls, reply>>

\* Continue waiting its turn: a handler goes on only when no request that
\* arrived in a lower slot is still awaiting its reply
ContinueInTurn(i) ==
    /\ pc[i] = "resolved"
    /\ \A j \in Slots : j < i => pc[j] # "awaiting"
    /\ sent' = IF Closed(i) THEN sent
               ELSE [sent EXCEPT ![i] = Append(@, HandlerResponse(req[i], reply[i]))]
    /\ pc' = [pc EXCEPT ![i] = "done"]
    /\ UNCHANGED <<env, req, calls, reply>>

\* the handler of request i continues after its await: it builds its
\* response, or catches, and sends; nothing goes out on a closed connection
Continue(i) ==
    /\ pc[i] = "resolved"
    /\ sent' = IF Closed(i) THEN sent
               ELSE [sent EXCEPT ![i] = Append(@, HandlerResponse(req[i], reply[i]))]
    /\ pc' = [pc EXCEPT ![i] = "done"]
    /\ UNCHANGED <<env, req, calls, reply>>

\* Disconnect aborting the upstream call of the request
DisconnectCancels(i) ==
    /\ pc[i] \in {"awaiting", "resolved"}
    /\ ~Closed(i)
    /\ req' = [req EXCEPT ![i] = @ @@ [destroyed |-> TRUE]]
    /\ calls' = [calls EXCEPT ![i] = <<>>]
    /\ pc' = [pc EXCEPT ![i] = "done"]
    /\ UNCHANGED <<env, reply, sent>>

\* the client of request i closes its connection while the handler awaits
Disconnect(i) ==
    /\ pc[i] \in {"awaiting", "resolved"}
    /\ ~Closed(i)
    /\ req' = [req EXCEPT ![i] = @ @@ [destroyed |-> TRUE]]
    /\ UNCHANGED <<env, pc, calls, reply, sent>>

TwoCountries ==
    LET abland == [FullCountry EXCEPT !.name.common = "Abland",
                                      !.region = <<"a", "b">>]
        upper  == [k \in DOMAIN FullCountry \ {"area"} |->
                      IF k = "name" THEN [common |-> "Upper Abland"]
                      ELSE IF k = "region" THEN <<"A", "B">> ELSE FullCountry[k]]
    IN  <<abland, upper>>

\* the rate 0.5 as the Number the provider's JSON is parsed to
HalfRate == StringToNumber(<<"0", ".", "5">>)

\* the replies of each provider: a payload and, for the weather and the
\* rate from dollars, a failure
FewReplies(route) ==
    CASE route = "currentWeather" ->
            {[ok |-> FALSE, error |-> "timeout"], Success(JsonObject(FullWeather))}
      [] route = "forecast" ->
            {Success(JsonObject([cod |-> "200", list |-> <<FullEntry>>]))}
      [] route = "country" -> {Success(JsonArray(<<FullCountry>>))}
      [] route = "continent" -> {Success(JsonArray(TwoCountries))}
      [] route = "usd-to-eur" ->
            {[ok |-> FALSE, error |-> "status 500"],
             Success(JsonObject("USD_EUR" :> HalfRate))}
      [] route = "jpy-to-gbp" -> {Success(JsonObject("JPY_GBP" :> HalfRate))}

\* the replies that can arrive for request i
InFlight(i) == IF pc[i] = "awaiting" THEN FewReplies(req[i].route) ELSE {}

FewQueries == {NoKeys, "amount" :> <<"3">>}

InitServer == Start(AllSet)

NextServer ==
    \E i \in Slots :
        \/ \E city \in Arriving(i, {<<"a">>}) : CurrentWeatherStart(i, city, <<"b">>)
        \/ \E city \in Arriving(i, {<<"a">>}) : ForecastStart(i, city, <<"b">>)
        \/ \E countryName \in Arriving(i, {<<"a">>}) : CountryStart(i, countryName)
        \/ \E continentName \in Arriving(i, {<<"A", "b">>}) :
              ContinentStart(i, continentName)
        \/ MapsApiKey(i)
        \/ \E q \in Arriving(i, FewQueries) : UsdToEurStart(i, q)
        \/ \E q \in Arriving(i, FewQueries) : JpyToGbpStart(i, q)
        \/ \E r \in InFlight(i) : Resolve(i, r)
        \/ Continue(i)
        \/ Disconnect(i)

SpecServer == InitServer /\ [][NextServer]_vars

\* the event loop runs every continuation that is ready: a handler whose
\* reply has arrived does continue.  The requests are those whose response
\* takes no arithmetic on the amount.
InitEventLoop == Start(AllSet)

NextEventLoop ==
    \E i \in Slots :
        \/ \E city \in Arriving(i, {<<"a">>}) : CurrentWeatherStart(i, city, <<"b">>)
        \/ \E city \in Arriving(i, {<<"a">>}) : ForecastStart(i, city, <<"b">>)
        \/ \E q \in Arriving(i, {NoKeys}) : UsdToEurStart(i, q)
        \/ MapsApiKey(i)
        \/ \E r \in InFlight(i) : Resolve(i, r)
        \/ Continue(i)

SpecEventLoop ==
    InitEventLoop /\ [][NextEventLoop]_vars /\ \A i \in Slots : WF_vars(Continue(i))

(***************************************************************************)
(* The request a URL makes.  A URL is text; what the provider is sent is   *)
(* what the text parses to: the query is the text after the first "?" and  *)
(* before the first "#" (the fragment is not sent), its parameters are     *)
(* separated by "&", and a parameter's name ends at its first "=".  The    *)
(* characters of the model need no percent-decoding.                       *)
(***************************************************************************)
UrlQueryText(url) ==
    LET kept == SubSeq(url, 1, IndexOf(url, "#") - 1)
    IN  SubSeq(kept, IndexOf(kept, "?") + 1, Len(kept))

RECURSIVE SplitOn(_, _)
\* text.split(d)
SplitOn(text, d) ==
    IF IndexOf(text, d) > Len(text) THEN <<text>>
    ELSE <<SubSeq(text, 1, IndexOf(text, d) - 1)>>
         \o SplitOn(SubSeq(text, IndexOf(text, d) + 1, Len(text)), d)

QueryParameter(text) ==
    [name  |-> Str(SubSeq(text, 1, IndexOf(text, "=") - 1)),
     value |-> Str(SubSeq(text, IndexOf(text, "=") + 1, Len(text)))]

\* the parameters of the request axios.get(url) sends, in their order
UrlQuery(url) ==
    LET parameters == SplitOn(UrlQueryText(url), "&")
    IN  [n \in 1..Len(parameters) |-> QueryParameter(parameters[n])]

\* the weather routes, cities with the characters that delimit a URL
UrlChars == {"a", "&", "=", "#", "?"}

UrlNames == TextsUpTo(UrlChars, MaxNameLen) \ {<<>>}

InitWeather == Start(AllSet)

NextWeather ==
    \/ \E city \in Arriving(1, UrlNames), country \in {<<"b">>, <<"#">>} :
          CurrentWeatherStart(1, city, country)
    \/ \E r \in Pending(1, "currentWeather", WeatherReplies) : CurrentWeatherResume(1, r)
    \/ \E city \in Arriving(1, UrlNames), country \in {<<"b">>, <<"#">>} :
          ForecastStart(1, city, country)
    \/ \E r \in Pending(1, "forecast", ForecastReplies) : ForecastResume(1, r)

SpecWeather == InitWeather /\ [][NextWeather]_vars

(***************************************************************************)
(* Properties of the currency routes.                                      *)
(***************************************************************************)
CurrencyRoutes == {"usd-to-eur", "jpy-to-gbp"}

OnRoute(i, routes) == req[i] # NoKeys /\ req[i].route \in routes

\* the one response of a request that is done
Response(i) == sent[i][1]

PromptText == "Please provide an amount to convert."

\* C1: on both currency routes a request without the amount parameter gets
\* 400 with the prompt text, and no upstream call is ever issued for it.
C1_MissingAmountIs400 ==
    \A i \in Slots :
        (OnRoute(i, CurrencyRoutes) /\ "amount" \notin DOMAIN req[i].query)
        => /\ pc[i] = "done"
           /\ sent[i] = << [status |-> 400, text |-> PromptText] >>
           /\ calls[i] = <<>>

C1_Witness ==
    /\ OnRoute(1, {"jpy-to-gbp"})
    /\ "amount" \notin DOMAIN req[1].query
    /\ pc[1] = "done"

PairKey(route) == IF route = "usd-to-eur" THEN "USD_EUR" ELSE "JPY_GBP"

TargetUnit(route) == IF route = "usd-to-eur" THEN " EUR" ELSE " GBP"

SourceUnit(route) == IF route = "usd-to-eur" THEN " USD" ELSE " JPY"

\* a currency request answered from a reply that carries the pair's rate
Converted(i) ==
    /\ OnRoute(i, CurrencyRoutes)
    /\ pc[i] = "done"
    /\ "amount" \in DOMAIN req[i].query
    /\ reply[i] # NoKeys
    /\ reply[i].ok
    /\ reply[i].data.t = "object"
    /\ PairKey(req[i].route) \in DOMAIN reply[i].data.v

RateOf(i) == reply[i].data.v[PairKey(req[i].route)]

\* n hundredths written with two decimals
CentsText(n) ==
    LET dm == BigDivMod(n, 100)
    IN  (IF dm.q = <<>> THEN "0" ELSE BigToDec(dm.q))
        \o "." \o DigitChar[(dm.r \div 10) + 1] \o DigitChar[(dm.r % 10) + 1]

RECURSIVE Pow10(_)
Pow10(k) == IF k = 0 THEN <<1>> ELSE BigMulSmall(Pow10(k - 1), 10)

FractionDigits(s) == IF IndexOf(s, ".") > Len(s) THEN 0 ELSE Len(s) - IndexOf(s, ".")

\* The decimal number written by the text a, times the rate r, rounded half
\* up to hundredths in exact arithmetic: floor(100 * a * r + 1/2).
ExactCents(a, r) ==
    LET k  == FractionDigits(a)
        nm == BigMulSmall(BigMul(BigFromDigits(<<>>, Without(a, ".")), r.m), 200)
    IN  IF r.e >= 0
        THEN DivPow10(BigShr(BigAdd(BigShl(nm, r.e), Pow10(k)), 1), k, FALSE).q
        ELSE DivPow10(BigShr(BigAdd(nm, BigShl(Pow10(k), 0 - r.e)), 1 - r.e),
                      k, FALSE).q

NearestCents(n, x) ==
    IF x.e >= 0 THEN n = BigShl(BigMulSmall(x.m, 100), x.e)
    ELSE LET d     == 0 - x.e
             twoT  == BigMulSmall(x.m, 200)
             twoN  == BigShl(n, d + 1)
             one   == BigShl(<<1>>, d)
         IN  /\ BigLess(twoT, BigAdd(twoN, one))
             /\ BigLeq(twoN, BigAdd(twoT, one))

CentsAround(x) ==
    LET t == BigMulSmall(x.m, 100)
    IN  IF x.e >= 0 THEN {BigShl(t, x.e)}
        ELSE {BigShr(t, 0 - x.e), BigAdd(BigShr(t, 0 - x.e), <<1>>)}

C9_NonNumericGivesNaN ==
    \A i \in Slots :
        (/\ OnRoute(i, CurrencyRoutes)
         /\ TruthyText(req[i].query, "amount")
         /\ ~IsDecimalLiteral(req[i].query.amount))
        => /\ Len(calls[i]) = 1
           /\ Converted(i)
              => /\ Response(i).status = 200
                 /\ Response(i).json.convertedAmount
                      = "NaN" \o TargetUnit(req[i].route)
                 /\ Response(i).json.originalAmount
                      = Str(req[i].query.amount) \o SourceUnit(req[i].route)

C9_Witness ==
    /\ Converted(1)
    /\ req[1].query.amount = <<"1", "a">>
    /\ Response(1).status = 200
    /\ Response(1).json.convertedAmount = "NaN EUR"

(***************************************************************************)
(* Properties of every data-fetching route.                                *)
(***************************************************************************)
DataRoutes ==
    {"currentWeather", "forecast", "country", "continent", "usd-to-eur", "jpy-to-gbp"}

\* a request whose upstream call was answered by r and whose handler is done
Answered(i) == OnRoute(i, DataRoutes) /\ pc[i] = "done" /\ reply[i] # NoKeys

\* the message each route documents for a failure
FailureText(request) ==
    CASE request.route = "currentWeather" -> "Error retrieving current weather"
      [] request.route = "forecast"       -> "Error retrieving 5-day forecast"
      [] request.route = "country"        ->
            "Error retrieving information about " \o Str(request.params.countryName)
      [] request.route = "continent"      ->
            "Error retrieving list of countries in " \o Str(request.params.continentName)
      [] request.route = "usd-to-eur"     -> "Error converting USD to EUR"
      [] request.route = "jpy-to-gbp"     -> "Error converting JPY to GBP"

\* C2: on every data-fetching route a failed upstream call (network error,
\* timeout, 4xx/5xx) is answered with 500 and the route's message, and no
\* JSON body goes out for that request.
C2_UpstreamFailureIs500 ==
    \A i \in Slots :
        (Answered(i) /\ ~reply[i].ok)
        => sent[i] = << [status |-> 500, text |-> FailureText(req[i])] >>

C2_Witness ==
    /\ Answered(1)
    /\ req[1].route = "country"
    /\ req[1].params.countryName = <<"A", "b">>
    /\ reply[1] = [ok |-> FALSE, error |-> "timeout"]
    /\ Response(1) = [status |-> 500, text |-> "Error retrieving information about Ab"]

\* a reply with a success status whose payload lacks what the handler reads
UnexpectedShape(route, data) ==
    CASE route = "currentWeather" ->
            data.t = "object" /\ {"weather", "main", "wind", "sys"} \ DOMAIN data.v # {}
      [] route = "forecast"   -> data.t = "object" /\ "list" \notin DOMAIN data.v
      [] route = "country"    -> data.t = "array" /\ data.v = <<>>
      [] route = "continent"  -> data.t # "array"
      [] route = "usd-to-eur" -> data.t = "object" /\ "USD_EUR" \notin DOMAIN data.v
      [] route = "jpy-to-gbp" -> data.t = "object" /\ "JPY_GBP" \notin DOMAIN data.v

\* C3: on every data-fetching route a reply with a success status and an
\* unexpected payload shape is answered like any upstream failure: 500 with
\* the route's message, never 200.
C3_UnexpectedShapeIs500 ==
    \A i \in Slots :
        (Answered(i) /\ reply[i].ok /\ UnexpectedShape(req[i].route, reply[i].data))
        => sent[i] = << [status |-> 500, text |-> FailureText(req[i])] >>

(***************************************************************************)
(* Properties of the country route.                                        *)
(***************************************************************************)
\* a lookup by name answered with a list whose first match is a record
Matched(i) ==
    /\ Answered(i)
    /\ req[i].route = "country"
    /\ reply[i].ok
    /\ reply[i].data.t = "array"
    /\ reply[i].data.v # <<>>

FirstMatch(i) == reply[i].data.v[1]

\* FullCountry without the upstream field behind a profile field
Lacking(field) ==
    IF field = "flag"
    THEN [FullCountry EXCEPT !.flags = [png |-> "https://flagcdn.com/fr.png"]]
    ELSE [k \in DOMAIN FullCountry \ {field} |-> FullCountry[k]]

ProfileKey(field) ==
    CASE field = "capital"   -> "capitalCity"
      [] field = "languages" -> "officialLanguage"
      [] OTHER               -> field

OptionalFields == {"capital", "area", "languages", "currencies", "subregion", "flag"}

\* C4: for each of capital, area, languages, currencies, subregion and flag,
\* a first match that lacks just that field is answered with 200 and the
\* profile field "Not Available".
C4_EachOptionalFieldDefaults ==
    \A i \in Slots : \A field \in OptionalFields :
        (Matched(i) /\ FirstMatch(i) = Lacking(field))
        => /\ Response(i).status = 200
           /\ Response(i).json[ProfileKey(field)] = NotAvailable

\* the texts the formatting gives for the values of the model
GroupedText(n) ==
    CASE n = 0 -> "0"
      [] n = 999 -> "999"
      [] n = 1000 -> "1,000"
      [] n = 551695 -> "551,695"
      [] n = 67391582 -> "67,391,582"

JoinedText(list) ==
    CASE list = <<>> -> ""
      [] list = <<"French">> -> "French"
      [] list = <<"Dutch", "French", "German">> -> "Dutch, French, German"

CurrencyText(list) ==
    CASE list = <<>> -> ""
      [] list = <<[name |-> "Euro", symbol |-> "E"]>> -> "Euro"
      [] list = <<[name |-> "Euro"], [name |-> "Franc"]>> -> "Euro, Franc"
      [] list = <<[symbol |-> "E"]>> -> ""

\* C5 as stated: a profile field is "Not Available" only when the upstream
\* field is absent, and every field upstream supplies, whatever its value,
\* appears as the upstream value changed only by formatting.
C5_SuppliedFieldsPassThrough ==
    \A i \in Slots :
        (Matched(i) /\ Response(i).status = 200)
        => LET c == FirstMatch(i)
               p == Response(i).json
           IN  /\ ("capital" \in DOMAIN c /\ c.capital # <<>>)
                  => p.capitalCity = c.capital[1]
               /\ p.population = GroupedText(c.population)
               /\ p.area = GroupedText(c.area) \o " km²"
               /\ "languages" \in DOMAIN c => p.officialLanguage = JoinedText(c.languages)
               /\ "currencies" \in DOMAIN c => p.currencies = CurrencyText(c.currencies)
               /\ "region" \in DOMAIN c => p.region = c.region
               /\ "subregion" \in DOMAIN c => p.subregion = c.subregion
               /\ "svg" \in DOMAIN c.flags => p.flag = c.flags.svg
               /\ \A k \in DOMAIN p \ {"region"} :
                    p[k] = NotAvailable
                    => CASE k = "capitalCity"      -> "capital" \notin DOMAIN c
                         [] k = "officialLanguage" -> "languages" \notin DOMAIN c
                         [] k = "currencies"       -> "currencies" \notin DOMAIN c
                         [] k = "subregion"        -> "subregion" \notin DOMAIN c
                         [] k = "flag"             -> "svg" \notin DOMAIN c.flags
                         [] OTHER                  -> FALSE

\* C5, amended: a profile field is "Not Available" only when the upstream
\* field is absent or, for subregion and the flag URL, is the empty string;
\* every other value upstream supplies appears changed only by formatting
\* (capital the first list element, and no capitalCity at all for an empty
\* list; languages and currency names joined by ", "; population and area
\* grouped by thousands, area with " km²"; region, subregion and flag URL
\* as they are).
C5_SuppliedFieldsPassThroughUnlessEmpty ==
    \A i \in Slots :
        (Matched(i) /\ Response(i).status = 200)
        => LET c == FirstMatch(i)
               p == Response(i).json
           IN  /\ ("capital" \in DOMAIN c /\ c.capital # <<>>)
                  => p.capitalCity = c.capital[1]
               /\ ("capital" \in DOMAIN c /\ c.capital = <<>>)
                  => "capitalCity" \notin DOMAIN p
               /\ p.population = GroupedText(c.population)
               /\ p.area = GroupedText(c.area) \o " km²"
               /\ "languages" \in DOMAIN c => p.officialLanguage = JoinedText(c.languages)
               /\ "currencies" \in DOMAIN c => p.currencies = CurrencyText(c.currencies)
               /\ "region" \in DOMAIN c => p.region = c.region
               /\ ("subregion" \in DOMAIN c /\ c.subregion # "")
                  => p.subregion = c.subregion
               /\ ("svg" \in DOMAIN c.flags /\ c.flags.svg # "")
                  => p.flag = c.flags.svg
               /\ \A k \in DOMAIN p \ {"region"} :
                    p[k] = NotAvailable
                    => CASE k = "capitalCity"      -> "capital" \notin DOMAIN c
                         [] k = "officialLanguage" -> "languages" \notin DOMAIN c
                         [] k = "currencies"       -> "currencies" \notin DOMAIN c
                         [] k = "subregion"        ->
                              "subregion" \notin DOMAIN c \/ c.subregion = ""
                         [] k = "flag"             ->
                              "svg" \notin DOMAIN c.flags \/ c.flags.svg = ""
                         [] OTHER                  -> FALSE

C5_Witness ==
    /\ Matched(1)
    /\ Response(1).status = 200
    /\ "subregion" \notin DOMAIN FirstMatch(1)
    /\ "capital" \in DOMAIN FirstMatch(1)
    /\ FirstMatch(1).capital = <<"Pretoria", "Cape Town">>
    /\ Response(1).json.subregion = NotAvailable
    /\ Response(1).json.capitalCity = "Pretoria"

(***************************************************************************)
(* Properties of the continent route.                                      *)
(***************************************************************************)
\* the catalog arrived: the request for all countries was answered with a list
Listed(i) ==
    /\ Answered(i)
    /\ req[i].route = "continent"
    /\ reply[i].ok
    /\ reply[i].data.t = "array"

Catalog(i) == reply[i].data.v

\* two characters that are the same, or the two cases of one letter
SameLetter(c, d) ==
    c = d \/ \E n \in 1..26 : {c, d} = {UpperLetters[n], LowerLetters[n]}

\* two texts that differ at most in the case of their letters
SameLetters(a, b) ==
    Len(a) = Len(b) /\ \A n \in 1..Len(a) : SameLetter(a[n], b[n])

\* what a client is given to see of two responses' result sets is the same
SameResultSet(p, q) ==
    /\ p.status = q.status
    /\ p.status = 200
       => /\ p.json.countries = q.json.countries
          /\ p.json.numberOfCountries = q.json.numberOfCountries

\* the catalog with the region of its n-th record written as region
WithRegion(catalog, n, region) ==
    [catalog EXCEPT ![n] = [catalog[n] EXCEPT !.region = region]]

\* C6: the continent filter ignores case: for the catalog that arrived, the
\* response has the same result set as the response to any name that
\* differs from the requested one only in the case of its letters, and
\* writing a record's region in another case changes nothing either.
C6_FilterIgnoresCase ==
    \A i \in Slots :
        Listed(i)
        => /\ \A other \in Names :
                SameLetters(other, req[i].params.continentName)
                => SameResultSet(Response(i), ContinentResponse(other, reply[i]))
           /\ \A n \in 1..Len(Catalog(i)) : \A region \in Names :
                ("region" \in DOMAIN Catalog(i)[n]
                    /\ SameLetters(region, Catalog(i)[n].region))
                => SameResultSet(
                      Response(i),
                      ContinentResponse(req[i].params.continentName,
                                        Success(JsonArray(WithRegion(Catalog(i), n, region)))))

C6_Witness ==
    /\ Listed(1)
    /\ req[1].params.continentName = <<"a", "b">>
    /\ Len(Catalog(1)) = 2
    /\ "region" \in DOMAIN Catalog(1)[1]
    /\ Catalog(1)[1].region = <<"A", "B">>
    /\ "region" \in DOMAIN Catalog(1)[2]
    /\ Catalog(1)[2].region = <<"b">>
    /\ Response(1).status = 200
    /\ Response(1).json.numberOfCountries = 1

\* C7: when the catalog arrived and no record's region is the requested
\* name in any case, the response is 200 with numberOfCountries 0 and an
\* empty list of countries.
C7_NoMatchIsEmpty200 ==
    \A i \in Slots :
        (/\ Listed(i)
         /\ \A n \in 1..Len(Catalog(i)) :
               \/ "region" \notin DOMAIN Catalog(i)[n]
               \/ ~SameLetters(Catalog(i)[n].region, req[i].params.continentName))
        => /\ Response(i).status = 200
           /\ Response(i).json.numberOfCountries = 0
           /\ Response(i).json.countries = <<>>

C7_Witness ==
    /\ Listed(1)
    /\ req[1].params.continentName = <<"a">>
    /\ Len(Catalog(1)) = 2
    /\ Response(1).status = 200
    /\ Response(1).json.numberOfCountries = 0

(***************************************************************************)
(* Properties of the map key route.                                        *)
(***************************************************************************)
\* C10: every request to /api/maps-api-key is answered at once with 200 and
\* the configured credential as apiKey, whatever that credential is, with no
\* upstream call and no other response.
C10_MapsKeyAsConfigured ==
    \A i \in Slots :
        OnRoute(i, {"maps-api-key"})
        => /\ pc[i] = "done"
           /\ calls[i] = <<>>
           /\ Len(sent[i]) = 1
           /\ Response(i).status = 200
           /\ "GOOGLE_MAPS_API_KEY" \in DOMAIN env
              => Response(i).json = [apiKey |-> env.GOOGLE_MAPS_API_KEY]

C10_Witness ==
    /\ OnRoute(1, {"maps-api-key"})
    /\ "GOOGLE_MAPS_API_KEY" \in DOMAIN env
    /\ env.GOOGLE_MAPS_API_KEY = "maps-key-2"
    /\ Response(1).json.apiKey = "maps-key-2"

(***************************************************************************)
(* Properties of the weather routes.                                       *)
(***************************************************************************)
\* a weather request answered with 200
Reported(i, route) ==
    /\ Answered(i)
    /\ req[i].route = route
    /\ Response(i).status = 200

\* the decimal text of the upstream numbers of the model
ValueText(n) ==
    CASE n = 21 -> "21"
      [] n = 19 -> "19"
      [] n = 60 -> "60"
      [] n = 4 -> "4"
      [] n = 12 -> "12"
      [] n = 10 -> "10"
      [] n = 81 -> "81"
      [] n = 7 -> "7"
      [] n = 0 - 5 -> "-5"
      [] n = 0 - 3 -> "-3"

\* o.k written with a unit, for a value upstream supplies
Suffixed(text, o, k, unit) == k \in DOMAIN o => text = ValueText(o[k]) \o unit

\* C11: every current-weather request answered with 200 has temperature and
\* feels_like equal to the upstream values followed by "°C", humidity to the
\* upstream value followed by "%", wind_speed to the upstream value followed
\* by " m/s", and description equal to the description of the first upstream
\* weather condition.
C11_UnitSuffixes ==
    \A i \in Slots :
        Reported(i, "currentWeather")
        => LET weatherData == reply[i].data.v
               summary     == Response(i).json
           IN  /\ Suffixed(summary.temperature, weatherData.main, "temp", "°C")
               /\ Suffixed(summary.feels_like, weatherData.main, "feels_like", "°C")
               /\ Suffixed(summary.humidity, weatherData.main, "humidity", "%")
               /\ Suffixed(summary.wind_speed, weatherData.wind, "speed", " m/s")
               /\ "description" \in DOMAIN weatherData.weather[1]
                  => summary.description = weatherData.weather[1].description

C11_Witness ==
    /\ Reported(1, "currentWeather")
    /\ reply[1].data.v = FullWeather
    /\ Response(1).json.temperature = "21°C"
    /\ Response(1).json.feels_like = "19°C"
    /\ Response(1).json.humidity = "60%"
    /\ Response(1).json.wind_speed = "4 m/s"
    /\ Response(1).json.description = "few clouds"

\* the local date and time of the upstream timestamps of the model
DateText(t) ==
    CASE t = 1700049600 -> "11/15/2023"
      [] t = 1700060400 -> "11/15/2023"

TimeText(t) ==
    CASE t = 1700049600 -> "12:00:00 PM"
      [] t = 1700060400 -> "3:00:00 PM"

\* the forecast the handler answers when the upstream list is just this entry
AloneInList(i, entry) ==
    ForecastResponse(req[i].params.city, req[i].params.country,
                     Success(JsonObject([cod |-> "200", list |-> <<entry>>]))).json.forecast

\* C12: every forecast request answered with 200 has exactly as many
\* forecast entries as the upstream list, and the entry at each index is
\* made from the upstream entry at that index alone: it is the entry the
\* handler answers when that upstream entry is the whole list, with that
\* entry's own time stamp and values.
C12_OneEntryPerUpstreamEntry ==
    \A i \in Slots :
        Reported(i, "forecast")
        => LET list     == reply[i].data.v.list
               forecast == Response(i).json.forecast
           IN  /\ Len(forecast) = Len(list)
               /\ \A n \in 1..Len(list) :
                     /\ <<forecast[n]>> = AloneInList(i, list[n])
                     /\ "dt" \in DOMAIN list[n]
                        => /\ forecast[n].date = DateText(list[n].dt)
                           /\ forecast[n].time = TimeText(list[n].dt)
                     /\ Suffixed(forecast[n].temperature, list[n].main, "temp", "°C")
                     /\ Suffixed(forecast[n].humidity, list[n].main, "humidity", "%")
                     /\ Suffixed(forecast[n].wind_speed, list[n].wind, "speed", " m/s")

C12_Witness ==
    /\ Reported(1, "forecast")
    /\ Len(reply[1].data.v.list) = 2
    /\ reply[1].data.v.list[1] = [FullEntry EXCEPT !.dt = 1700060400,
                                                   !.main = [temp |-> 0 - 3]]
    /\ reply[1].data.v.list[2] = FullEntry
    /\ Len(Response(1).json.forecast) = 2
    /\ Response(1).json.forecast[1].time = "3:00:00 PM"
    /\ Response(1).json.forecast[1].temperature = "-3°C"
    /\ Response(1).json.forecast[2].time = "12:00:00 PM"
    /\ Response(1).json.forecast[2].temperature = "12°C"

(***************************************************************************)
(* The first match of the country route.                                   *)
(***************************************************************************)
\* what may follow the first match in the upstream list
LaterMatches ==
    { <<>>, <<FullCountry>>, <<NoKeys>>, <<NoKeys, FullCountry>>,
      <<Lacking("area"), Lacking("capital")>> }

\* C13: the response to a lookup by name is decided by the first upstream
\* match alone: whatever follows it in the upstream list, records that
\* cannot be read included, the response is the same.
C13_FirstMatchDecides ==
    \A i \in Slots :
        Matched(i)
        => \A later \in LaterMatches :
              CountryResponse(req[i].params.countryName,
                              Success(JsonArray(<<FirstMatch(i)>> \o later)))
              = Response(i)

C13_Witness ==
    /\ Matched(1)
    /\ Len(reply[1].data.v) = 2
    /\ FirstMatch(1) = Lacking("subregion")
    /\ reply[1].data.v[2] = NoKeys
    /\ Response(1).status = 200
    /\ Response(1).json.countryName = "France"
    /\ Response(1).json.subregion = NotAvailable

(***************************************************************************)
(* Properties of requests in flight together.                              *)
(***************************************************************************)
\* the request in slot i has arrived
Arrived(i) == pc[i] # "idle"

\* a request on a route that fetches data whose input passed validation
PastValidation(i) ==
    /\ OnRoute(i, DataRoutes)
    /\ req[i].route \in CurrencyRoutes
       => ("amount" \in DOMAIN req[i].query /\ req[i].query.amount # <<>>)

\* the address of the provider each route calls
ProviderOf(route) ==
    CASE route = "currentWeather" -> "https://api.openweathermap.org/data/2.5/weather"
      [] route = "forecast"       -> "https://api.openweathermap.org/data/2.5/forecast"
      [] route = "country"        -> "https://restcountries.com/v3.1/name/"
      [] route = "continent"      -> "https://restcountries.com/v3.1/all"
      [] route = "usd-to-eur"     -> "https://free.currconv.com/api/v7/convert"
      [] route = "jpy-to-gbp"     -> "https://free.currconv.com/api/v7/convert"

\* C14: no request has more than one upstream call: a request on a
\* data-fetching route that passed validation has exactly one, to its
\* route's provider, from the moment it awaits to the end, whatever the
\* reply was (a failure is not retried, and the continent route has its one
\* bulk call however many countries matched); a request answered with the
\* 400 and a request for the map key have none.
C14_OneUpstreamCall ==
    \A i \in Slots :
        /\ Len(calls[i]) <= 1
        /\ (Arrived(i) /\ PastValidation(i))
           => /\ Len(calls[i]) = 1
              /\ Head(calls[i][1]) = ProviderOf(req[i].route)
        /\ (Arrived(i) /\ ~PastValidation(i)) => calls[i] = <<>>
        /\ ~Arrived(i) => calls[i] = <<>>

C14_Witness ==
    /\ pc[1] = "done"
    /\ req[1].route = "continent"
    /\ sent[1] # <<>>
    /\ Response(1).status = 200
    /\ Response(1).json.numberOfCountries = 2
    /\ calls[1] = <<ContinentUrl>>
    /\ pc[2] = "done"
    /\ req[2].route = "usd-to-eur"
    /\ sent[2] # <<>>
    /\ Response(2).status = 500
    /\ Len(calls[2]) = 1

\* everything the server holds for the request in slot i
SlotState(i) == <<pc[i], req[i], calls[i], reply[i], sent[i]>>

\* the response a request gets when it is the only one: decided by its own
\* parameters, the credentials read at startup and the reply to its own call
Alone(i) ==
    IF req[i].route = "maps-api-key"
    THEN [status |-> 200,
          json |-> IF "GOOGLE_MAPS_API_KEY" \in DOMAIN env
                   THEN [apiKey |-> env.GOOGLE_MAPS_API_KEY] ELSE NoKeys]
    ELSE IF ~PastValidation(i) THEN [status |-> 400, text |-> PromptText]
    ELSE HandlerResponse([k \in DOMAIN req[i] \ {"destroyed"} |-> req[i][k]], reply[i])

\* C15: requests in flight together do not affect one another: a request
\* that is done on an open connection has exactly the response it gets when
\* it is the only request, whatever the other requests were and in whatever
\* order the replies arrived; a request that is not done has no response;
\* every step changes what the server holds for one request only, and no
\* step changes the credentials.
C15_RequestsIndependent ==
    /\ [](\A i \in Slots :
            /\ (pc[i] = "done" /\ ~Closed(i)) => sent[i] = <<Alone(i)>>
            /\ pc[i] # "done" => sent[i] = <<>>)
    /\ [][/\ env' = env
           /\ \A i \in Slots : \A j \in Slots \ {i} :
                 SlotState(i)' # SlotState(i) => SlotState(j)' = SlotState(j)]_vars

C15_Witness ==
    /\ pc[1] = "done"
    /\ pc[2] = "done"
    /\ req[1] = [route |-> "usd-to-eur", query |-> [amount |-> <<"3">>]]
    /\ req[2] = [route |-> "jpy-to-gbp", query |-> [amount |-> <<"3">>]]
    /\ reply[1] = [ok |-> FALSE, error |-> "status 500"]
    /\ sent[1] = <<[status |-> 500, text |-> "Error converting USD to EUR"]>>
    /\ sent[2] # <<>>
    /\ Response(2).status = 200
    /\ Response(2).json.convertedAmount = "1.50 GBP"

\* C19: a request on a data-fetching route that reached its upstream call is
\* answered only after the reply to its own call arrived, and once the
\* reply arrived (a payload or a failure) it does get its one response;
\* while the reply has not arrived the request stays unanswered, by no step
\* other than the arrival of its reply does it stop waiting (no timeout of
\* the server fires), and this holds for each request whatever the others
\* do, so that a request whose reply arrived completes even when another
\* waits for ever.
C19_ResponseFollowsOwnReply ==
    /\ [](\A i \in Slots :
            (Arrived(i) /\ PastValidation(i))
            => /\ sent[i] # <<>> => (reply[i] # NoKeys /\ pc[i] = "done")
               /\ pc[i] = "awaiting" => (reply[i] = NoKeys /\ sent[i] = <<>>))
    /\ [][\A i \in Slots :
            pc[i] = "awaiting"
            => \/ SlotState(i)' = SlotState(i)
               \/ pc'[i] = "resolved" /\ reply'[i] # NoKeys /\ sent'[i] = <<>>]_vars
    /\ \A i \in Slots :
          (pc[i] = "resolved") ~> (pc[i] = "done" /\ sent[i] = <<Alone(i)>>)

C19_Witness ==
    /\ pc[1] = "awaiting"
    /\ req[1].route = "currentWeather"
    /\ sent[1] = <<>>
    /\ pc[2] = "done"
    /\ req[2].route = "currentWeather"
    /\ reply[2] = Success(JsonObject(FullWeather))
    /\ Len(sent[2]) = 1
    /\ Response(2).status = 200

\* C20: when a client closes its connection while its request awaits the
\* upstream call, the call is not cancelled: it stays issued and its reply
\* can still arrive; nothing is sent for the request, to its
\* own client or in the response of any other request; and the step in
\* which the client disconnects changes nothing but the connection of that
\* one request.
C20_DisconnectCancelsNothing ==
    /\ [](\A i \in Slots :
            Closed(i)
            => /\ Len(calls[i]) = 1
               /\ sent[i] = <<>>
               /\ pc[i] = "awaiting" => ENABLED (\E r \in InFlight(i) : Resolve(i, r)))
    /\ [][\A i \in Slots :
            /\ (Closed(i) /\ SlotState(i)' # SlotState(i)) => sent' = sent
            /\ (~Closed(i) /\ Closed(i)')
               => /\ <<env, pc, calls, reply, sent>>' = <<env, pc, calls, reply, sent>>
                  /\ \A j \in Slots \ {i} : req'[j] = req[j]]_vars

C20_Witness ==
    /\ Closed(1)
    /\ req[1].route = "forecast"
    /\ pc[1] = "done"
    /\ reply[1] = Success(JsonObject([cod |-> "200", list |-> <<FullEntry>>]))
    /\ sent[1] = <<>>
    /\ pc[2] = "done"
    /\ req[2].route = "forecast"
    /\ ~Closed(2)
    /\ Len(sent[2]) = 1
    /\ Response(2).status = 200

(***************************************************************************)
(* The listing of the continent route.                                     *)
(***************************************************************************)
\* the n-th record of the catalog is of the requested continent
Matching(i, n) ==
    /\ "region" \in DOMAIN Catalog(i)[n]
    /\ SameLetters(Catalog(i)[n].region, req[i].params.continentName)

Matches(i) == { n \in 1..Len(Catalog(i)) : Matching(i, n) }

\* the place in the catalog of the k-th record of the requested continent
KthMatch(i, k) ==
    CHOOSE n \in Matches(i) : Cardinality({ m \in Matches(i) : m <= n }) = k

\* the catalog with the area of FullCountry given to the records lacking one
WithAreas(catalog) ==
    [n \in 1..Len(catalog) |->
        IF "area" \in DOMAIN catalog[n] THEN catalog[n]
        ELSE catalog[n] @@ [area |-> FullCountry.area]]

\* C16: when no matching record lacks what the entry cannot do without
\* (name, population, flags), matching records that lack area do not fail
\* the request: the response is 200, the entry of such a record has area
\* "Not Available" and its other fields as computed from the record's own
\* data, and every entry is, but for that area, the entry of the response
\* to the same catalog with the missing areas supplied.
C16_MissingAreaDefaultsAreaOnly ==
    \A i \in Slots :
        (/\ Listed(i)
         /\ \A n \in Matches(i) :
               {"name", "population", "flags"} \subseteq DOMAIN Catalog(i)[n])
        => LET listing  == Response(i)
               supplied == ContinentResponse(req[i].params.continentName,
                                             Success(JsonArray(WithAreas(Catalog(i)))))
           IN  /\ listing.status = 200
               /\ supplied.status = 200
               /\ Len(listing.json.countries) = Len(supplied.json.countries)
               /\ \A k \in 1..Len(listing.json.countries) :
                     LET entry  == listing.json.countries[k]
                         record == Catalog(i)[KthMatch(i, k)]
                     IN  /\ entry.countryName = record.name.common
                         /\ entry.capitalCity = "Paris"
                         /\ entry.population = "67,391,582"
                         /\ entry.languages = "French"
                         /\ entry.flag = "https://flagcdn.com/fr.svg"
                         /\ IF "area" \in DOMAIN record
                            THEN /\ entry.area = "551,695 km²"
                                 /\ entry = supplied.json.countries[k]
                            ELSE /\ entry.area = NotAvailable
                                 /\ entry = [supplied.json.countries[k]
                                               EXCEPT !.area = NotAvailable]

C16_Witness ==
    /\ Listed(1)
    /\ req[1].params.continentName = <<"A", "b">>
    /\ Len(Catalog(1)) = 2
    /\ "name" \in DOMAIN Catalog(1)[1]
    /\ Catalog(1)[1].name.common = "Upper Abland"
    /\ "area" \notin DOMAIN Catalog(1)[1]
    /\ "name" \in DOMAIN Catalog(1)[2]
    /\ Catalog(1)[2].name.common = "Abland"
    /\ "area" \in DOMAIN Catalog(1)[2]
    /\ Response(1).status = 200
    /\ Response(1).json.countries[1].area = NotAvailable
    /\ Response(1).json.countries[1].countryName = "Upper Abland"
    /\ Response(1).json.countries[2].area = "551,695 km²"

\* C17: in every continent response with status 200 the countries are the
\* records of the catalog whose region is the requested name but for the
\* case of its letters, each once, no other record, in the order of the
\* catalog, and numberOfCountries is the length of the list.
C17_ListingIsMatchingSubsequence ==
    \A i \in Slots :
        (Listed(i) /\ Response(i).status = 200)
        => LET listing == Response(i).json
           IN  /\ Len(listing.countries) = Cardinality(Matches(i))
               /\ listing.numberOfCountries = Len(listing.countries)
               /\ \A k \in 1..Len(listing.countries) :
                     LET record == Catalog(i)[KthMatch(i, k)]
                     IN  /\ listing.countries[k].countryName = record.name.common
                         /\ listing.countries[k].area = NotAvailable
                            <=> "area" \notin DOMAIN record

C17_Witness ==
    /\ Listed(1)
    /\ req[1].params.continentName = <<"a", "b">>
    /\ Len(Catalog(1)) = 2
    /\ Matches(1) = {1, 2}
    /\ Response(1).status = 200
    /\ Response(1).json.numberOfCountries = 2
    /\ Response(1).json.countries[1].countryName = "Upper Abland"
    /\ Response(1).json.countries[2].countryName = "Abland"

(***************************************************************************)
(* The label of the continent route.                                       *)
(***************************************************************************)
\* a continent response with status 200
Labelled(i) == Listed(i) /\ Response(i).status = 200

\* the text is capitalized: no lower-case letter first, no upper-case letter
\* after it
IsCapitalized(text) ==
    \A n \in 1..Len(text) :
        \A l \in 1..26 :
            IF n = 1 THEN text[n] # LowerLetters[l] ELSE text[n] # UpperLetters[l]

\* the text has only characters that are not letters or are letters of the
\* basic Latin alphabet
IsAscii(text) == \A n \in 1..Len(text) : text[n] # "ß"

\* C18 as stated: the label of every continent response with status 200 is
\* the requested name with its first character in upper case and the others
\* in lower case; normalizing the label again gives the label; and every
\* name that differs from the requested one only in the case of its letters
\* has the same label.
C18_LabelIsCapitalizedName ==
    \A i \in Slots :
        Labelled(i)
        => LET continentName == req[i].params.continentName
               label         == Response(i).json.continent
           IN  /\ label = ToUpperCase(<<Head(continentName)>>)
                           \o ToLowerCase(Tail(continentName))
               /\ ContinentLabel(label) = label
               /\ \A other \in LabelNames :
                     SameLetters(other, continentName) => ContinentLabel(other) = label

\* C18, amended: for a requested name of basic Latin characters the label
\* is the name capitalized, with the letters of the name in their order;
\* normalizing the label again gives the label; and every name that differs
\* from the requested one only in the case of its letters has the same
\* label.
C18_LabelIsCapitalizedAsciiName ==
    \A i \in Slots :
        (Labelled(i) /\ IsAscii(req[i].params.continentName))
        => LET continentName == req[i].params.continentName
               label         == Response(i).json.continent
           IN  /\ SameLetters(label, continentName)
               /\ IsCapitalized(label)
               /\ ContinentLabel(label) = label
               /\ \A other \in LabelNames :
                     SameLetters(other, continentName) => ContinentLabel(other) = label

C18_Witness ==
    /\ Labelled(1)
    /\ req[1].params.continentName = <<"a", "A">>
    /\ Response(1).json.continent = <<"A", "a">>

(***************************************************************************)
(* The upstream request of the weather routes.                             *)
(***************************************************************************)
WeatherRoutes == {"currentWeather", "forecast"}

\* C21: on the weather routes, whatever the characters of city and country,
\* the one upstream request has exactly three parameters: the location q,
\* received as "city,country" character for character, units = metric, and
\* appid = the credential; no character of city or country adds, removes or
\* changes a parameter.
C21_LocationForwardedIntact ==
    \A i \in Slots :
        (Arrived(i) /\ OnRoute(i, WeatherRoutes))
        => /\ Len(calls[i]) = 1
           /\ UrlQuery(calls[i][1])
              = << [name |-> "q",
                    value |-> Str(req[i].params.city) \o "," \o Str(req[i].params.country)],
                   [name |-> "units", value |-> "metric"],
                   [name |-> "appid", value |-> apiKey] >>

(***************************************************************************)
(* One response on one path.                                               *)
(***************************************************************************)
\* C22: every request has at most one response, and exactly one once its
\* handler is done; the response is a JSON body with status 200 or an error
\* text with another status, never both; on the currency routes the status
\* is 400 exactly when the amount is missing, and then there is no upstream
\* call, and otherwise 200 after a reply that is no failure or 500; on the
\* other data routes it is 200 after a reply that is no failure or 500; a
\* failed call is always answered with 500.
C22_OneResponseOnOnePath ==
    \A i \in Slots :
        /\ Len(sent[i]) <= 1
        /\ Len(sent[i]) = 1 <=> pc[i] = "done"
        /\ pc[i] = "done"
           => LET response == sent[i][1]
              IN  /\ DOMAIN response \in {{"status", "json"}, {"status", "text"}}
                  /\ "json" \in DOMAIN response <=> response.status = 200
                  /\ response.status \in
                        (IF req[i].route \in CurrencyRoutes THEN {400, 200, 500}
                         ELSE IF req[i].route \in DataRoutes THEN {200, 500}
                         ELSE {200})
                  /\ response.status = 400
                     <=> (req[i].route \in CurrencyRoutes /\ ~PastValidation(i))
                  /\ response.status = 400 => (calls[i] = <<>> /\ reply[i] = NoKeys)
                  /\ (req[i].route \in DataRoutes /\ response.status # 400)
                     => /\ Len(calls[i]) = 1
                        /\ reply[i] # NoKeys
                        /\ response.status = 200 => reply[i].ok
                        /\ ~reply[i].ok => response.status = 500

C22_Witness ==
    /\ pc[1] = "done"
    /\ req[1].route = "usd-to-eur"
    /\ req[1].query = [amount |-> <<"1", "0", "0">>]
    /\ reply[1] = Success(JsonNull)
    /\ sent[1] = <<[status |-> 500, text |-> "Error converting USD to EUR"]>>

(***************************************************************************)
(* All or nothing on the continent route.                                  *)
(***************************************************************************)
\* the records of the requested continent, in the order of the catalog
OnlyMatches(i) == [k \in 1..Cardinality(Matches(i)) |-> Catalog(i)[KthMatch(i, k)]]

\* the catalog with nothing left of the other records but their region
OthersStripped(i) ==
    [n \in 1..Len(Catalog(i)) |->
        IF Matching(i, n) THEN Catalog(i)[n]
        ELSE [k \in DOMAIN Catalog(i)[n] \cap {"region"} |-> Catalog(i)[n][k]]]

\* C23: on the continent route the response to a catalog is 200 with an
\* entry for every matching record when every matching record has name,
\* population and flags, and otherwise 500 with the route's message and no
\* list at all; the records that do not match (no region, or another one)
\* change nothing: the response is the response to the matching records
\* alone, and to the catalog with the other records emptied of their fields.
C23_AllMatchesOrFailure ==
    \A i \in Slots :
        Listed(i)
        => LET continentName == req[i].params.continentName
               readable == \A n \in Matches(i) :
                              {"name", "population", "flags"} \subseteq DOMAIN Catalog(i)[n]
           IN  /\ readable
                  => /\ Response(i).status = 200
                     /\ Len(Response(i).json.countries) = Cardinality(Matches(i))
               /\ ~readable
                  => Response(i) = [status |-> 500, text |-> FailureText(req[i])]
               /\ Response(i)
                  = ContinentResponse(continentName, Success(JsonArray(OnlyMatches(i))))
               /\ Response(i)
                  = ContinentResponse(continentName, Success(JsonArray(OthersStripped(i))))

C23_Witness ==
    /\ Listed(1)
    /\ req[1].params.continentName = <<"b">>
    /\ Len(Catalog(1)) = 2
    /\ ~Matching(1, 1)
    /\ "name" \notin DOMAIN Catalog(1)[1]
    /\ Matching(1, 2)
    /\ Response(1).status = 200
    /\ Response(1).json.numberOfCountries = 1
    /\ Response(1).json.countries[1].countryName = "Bland"

(***************************************************************************)
(* The presence check and the two currency handlers side by side.          *)
(***************************************************************************)
\* C24: on both currency routes a request is answered with 400 exactly when
\* its amount is absent or the empty text; with any other amount, "0" and
\* text that is no number included, the upstream call is made and the
\* response, once there, is not a 400.
C24_Only400WhenAbsentOrEmpty ==
    \A i \in Slots :
        (Arrived(i) /\ OnRoute(i, CurrencyRoutes))
        => LET missing == \/ "amount" \notin DOMAIN req[i].query
                          \/ req[i].query.amount = <<>>
           IN  /\ missing
                  => sent[i] = <<[status |-> 400, text |-> PromptText]>>
               /\ ~missing
                  => /\ Len(calls[i]) = 1
                     /\ \A n \in 1..Len(sent[i]) : sent[i][n].status # 400

C24_Witness ==
    /\ pc[1] = "done"
    /\ req[1] = [route |-> "jpy-to-gbp", query |-> [amount |-> <<"0">>]]
    /\ Len(calls[1]) = 1
    /\ reply[1].ok
    /\ Response(1).status = 200
    /\ Response(1).json.originalAmount = "0 JPY"
    /\ Response(1).json.convertedAmount = "0.00 GBP"

\* the other currency route
OtherRoute(route) == IF route = "usd-to-eur" THEN "jpy-to-gbp" ELSE "usd-to-eur"

\* the handler of a currency route after its await
ResponseOn(route, amount, r) ==
    IF route = "usd-to-eur" THEN UsdToEurResponse(amount, r)
    ELSE JpyToGbpResponse(amount, r)

UrlOn(route) == IF route = "usd-to-eur" THEN UsdToEurUrl ELSE JpyToGbpUrl

CodeOf(unit) ==
    CASE unit = " USD" -> "USD" [] unit = " EUR" -> "EUR"
      [] unit = " JPY" -> "JPY" [] unit = " GBP" -> "GBP"

\* the reply r to a call of one route as the same outcome of the other
\* route: the rate under the other pair's key
ReplyFor(route, r) ==
    IF ~r.ok \/ r.data.t # "object" THEN r
    ELSE Success(JsonObject(
            [k \in { IF key = PairKey(OtherRoute(route)) THEN PairKey(route) ELSE key :
                       key \in DOMAIN r.data.v }
               |-> IF k = PairKey(route) THEN r.data.v[PairKey(OtherRoute(route))]
                   ELSE r.data.v[k]]))

\* the texts a converted amount can be
NumericTexts ==
    {"NaN"} \cup
    { ToFixed2(NumberMultiply(StringToNumber(a), StringToNumber(lit))) :
        a \in TextsUpTo(AmountChars, MaxAmountLen), lit \in RateLiterals }

\* the response of one route with the codes, the units and the message of
\* the other route in their place
Renamed(route, amount, response) ==
    IF response.status # 200
    THEN [status |-> response.status,
          text |-> IF response.text = FailureText([route |-> route])
                   THEN FailureText([route |-> OtherRoute(route)])
                   ELSE response.text]
    ELSE LET other  == OtherRoute(route)
             number == CHOOSE x \in NumericTexts :
                          response.json.convertedAmount = x \o TargetUnit(route)
         IN  [status |-> 200,
              json |-> [k \in DOMAIN response.json |->
                          CASE k = "fromCurrency" -> CodeOf(SourceUnit(other))
                            [] k = "toCurrency" -> CodeOf(TargetUnit(other))
                            [] k = "originalAmount" -> Str(amount) \o SourceUnit(other)
                            [] k = "convertedAmount" -> number \o TargetUnit(other)
                            [] OTHER -> response.json[k]]]

\* C25: the two currency handlers do the same but for the pair: the
\* response of a request on one route is, with the codes, the units and the
\* failure message of the other route in their place, the response of the
\* other handler to the same amount and the same upstream outcome (the rate
\* under its own key, a failure, a body without the rate); status, numeric
\* text and rate are the same, the upstream call is the same but for the
\* pair it names, and a missing amount gets the same 400 from both.
C25_HandlersAgreeUpToPair ==
    \A i \in Slots :
        (OnRoute(i, CurrencyRoutes) /\ pc[i] = "done")
        => LET route == req[i].route
               other == OtherRoute(route)
           IN  IF ~PastValidation(i)
               THEN sent[i] = <<[status |-> 400, text |-> PromptText]>> /\ calls[i] = <<>>
               ELSE /\ Renamed(route, req[i].query.amount, Response(i))
                       = ResponseOn(other, req[i].query.amount, ReplyFor(other, reply[i]))
                    /\ \/ Response(i).status = 500
                       \/ /\ Response(i).json.originalAmount
                                = Str(req[i].query.amount) \o SourceUnit(route)
                          /\ Response(i).json.fromCurrency = CodeOf(SourceUnit(route))
                          /\ Response(i).json.toCurrency = CodeOf(TargetUnit(route))
                    /\ Len(calls[i]) = 1
                    /\ [n \in 1..Len(calls[i][1]) |->
                           IF calls[i][1][n] = PairKey(route) THEN PairKey(other)
                           ELSE calls[i][1][n]]
                       = UrlOn(other)

C25_Witness ==
    /\ pc[1] = "done"
    /\ req[1] = [route |-> "usd-to-eur", query |-> [amount |-> <<"1", "3">>]]
    /\ reply[1].ok
    /\ Response(1).status = 200
    /\ Response(1).json.convertedAmount = "6.50 EUR"
    /\ JpyToGbpResponse(<<"1", "3">>, Success(JsonObject("JPY_GBP" :> HalfRate))).json.convertedAmount
       = "6.50 GBP"

====
